---- MODULE Spec2Model ----
(***************************************************************************)
(* Collision detection and movement resolution of the 3D engine:           *)
(* OrientedBoundingBox, CollisionSystem, Player and Enemy.                 *)
(*                                                                         *)
(* Numbers are fixed-point: one model unit is 0.001 world units (and one   *)
(* millisecond for times), so 1.5 is 1500 and the 0.01 buffer is 10.       *)
(* A vector is a tuple <<x, y, z>>.  A rotation is a count of quarter      *)
(* turns about the Y axis, which keeps every box axis an integer vector.   *)
(* An optional value (T | null) is the empty sequence or <<value>>.        *)
(***************************************************************************)
EXTENDS Integers, Sequences, FiniteSets, TLC

VARIABLES
    collidables,        \* CollisionSystem.collidables, in registration order
    q,                  \* the latest query made on the collision system and its result
    playerPos,          \* Player.cameraHolder.position
    verticalVelocity,   \* Player.verticalVelocity
    isOnGround,         \* Player.isOnGround
    isClimbing,         \* Player.isClimbing
    climb,              \* climbStartTime, climbStartPosition, climbTargetPosition
    lastJumpTime,       \* Player.lastJumpTime
    legacyPos,          \* camera.position of the earlier Player class of player.ts
    enemyPos,           \* Enemy.mesh.position
    now,                \* Date.now()
    ticks,              \* number of updates made so far
    last,               \* the latest update: actor, inputs and the attempt that decided it
    pc,                 \* the statement of Game.update that runs next
    player,             \* Player: health, armor, isDead, lastDamageTime, lastShotTime
    enemy,              \* Enemy: state, health, lastAttackTime
    enemies,            \* EnemyManager.enemies
    gameOver,           \* Game.gameOver
    pending             \* number of requestAnimationFrame callbacks of gameLoop not yet run

\* the fields of the Game session: health bookkeeping, the enemy's state
\* machine, the enemy list and the frame callbacks
sessionVars == <<player, enemy, enemies, gameOver, pending>>

vars == <<collidables, q, playerPos, verticalVelocity, isOnGround, isClimbing,
          climb, lastJumpTime, legacyPos, enemyPos, now, ticks, last, pc, sessionVars>>

----------------------------------------------------------------------------
(* Optional values and small arithmetic helpers.                           *)

Null == <<>>

Some(v) == <<v>>

Abs(a) == IF a < 0 THEN -a ELSE a

Min(a, b) == IF a <= b THEN a ELSE b

Max(a, b) == IF a >= b THEN a ELSE b

\* a / b rounded to the nearest integer (b > 0), the fixed-point image of a
\* floating-point division.
RDiv(a, b) == IF a >= 0 THEN (2 * a + b) \div (2 * b) ELSE -((2 * (-a) + b) \div (2 * b))

RECURSIVE SqrtSearch(_, _, _)
SqrtSearch(n, lo, hi) ==
    IF lo >= hi THEN lo
    ELSE LET mid == (lo + hi + 1) \div 2
         IN IF mid * mid <= n THEN SqrtSearch(n, mid, hi) ELSE SqrtSearch(n, lo, mid - 1)

\* Math.sqrt, rounded down to the model unit.
ISqrt(n) == SqrtSearch(n, 0, 46340)

----------------------------------------------------------------------------
(* THREE.Vector3 on tuples.                                                *)

Vec(x, y, z) == <<x, y, z>>

Zero3 == <<0, 0, 0>>

add(a, b) == <<a[1] + b[1], a[2] + b[2], a[3] + b[3]>>

sub(a, b) == <<a[1] - b[1], a[2] - b[2], a[3] - b[3]>>

dot(a, b) == a[1] * b[1] + a[2] * b[2] + a[3] * b[3]

multiplyScalar(a, s) == <<a[1] * s, a[2] * s, a[3] * s>>

lengthSq(a) == dot(a, a)

\* v scaled to length len: v.normalize().multiplyScalar(len).  normalize()
\* divides by (length() || 1), so the zero vector stays zero.
\* a normalisation that turns the zero vector into the unit X vector
setLengthOfZeroAsUnitX(v, len) ==
    LET l == ISqrt(lengthSq(v))
    IN IF l = 0 THEN <<len, 0, 0>>
       ELSE <<RDiv(v[1] * len, l), RDiv(v[2] * len, l), RDiv(v[3] * len, l)>>

setLength(v, len) ==
    LET l == ISqrt(lengthSq(v))
    IN IF l = 0 THEN Zero3
       ELSE <<RDiv(v[1] * len, l), RDiv(v[2] * len, l), RDiv(v[3] * len, l)>>

----------------------------------------------------------------------------
(* OrientedBoundingBox.                                                    *)

\* computeAxes: the canonical basis rotated by the box's quaternion, here a
\* rotation of rot quarter turns about Y.
computeAxes(rot) ==
    IF rot % 4 = 0 THEN << <<1, 0, 0>>, <<0, 1, 0>>, <<0, 0, 1>> >>
    ELSE IF rot % 4 = 1 THEN << <<0, 0, -1>>, <<0, 1, 0>>, <<1, 0, 0>> >>
    ELSE IF rot % 4 = 2 THEN << <<-1, 0, 0>>, <<0, 1, 0>>, <<0, 0, -1>> >>
    ELSE << <<0, 0, 1>>, <<0, 1, 0>>, <<-1, 0, 0>> >>

\* new OrientedBoundingBox(center, halfSize, rotation)
OrientedBoundingBox(center, halfSize, rot) ==
    [center |-> center, halfSize |-> halfSize, axes |-> computeAxes(rot)]

\* Math.max(-h, Math.min(projection, h))
clamp(projection, h) == Max(-h, Min(projection, h))

closestPointToPoint(obb, point) ==
    LET localPoint == sub(point, obb.center)
        c(i) == clamp(dot(localPoint, obb.axes[i]), obb.halfSize[i])
    IN add(obb.center,
           add(multiplyScalar(obb.axes[1], c(1)),
               add(multiplyScalar(obb.axes[2], c(2)), multiplyScalar(obb.axes[3], c(3)))))

intersectsSphere(obb, center, radius) ==
    lengthSq(sub(closestPointToPoint(obb, center), center)) <= radius * radius

\* The six face distances in the order the code pushes them: axis 0 +, axis 0 -,
\* axis 1 +, ...
faceDepths(obb, point) ==
    LET localPoint == sub(point, obb.center)
        pr(i) == dot(localPoint, obb.axes[i])
    IN << [axis |-> 1, dist |-> obb.halfSize[1] - pr(1), dir |-> 1],
          [axis |-> 1, dist |-> obb.halfSize[1] + pr(1), dir |-> -1],
          [axis |-> 2, dist |-> obb.halfSize[2] - pr(2), dir |-> 1],
          [axis |-> 2, dist |-> obb.halfSize[2] + pr(2), dir |-> -1],
          [axis |-> 3, dist |-> obb.halfSize[3] - pr(3), dir |-> 1],
          [axis |-> 3, dist |-> obb.halfSize[3] + pr(3), dir |-> -1] >>

\* depths.sort((a, b) => a.dist - b.dist)[0]: the sort is stable, so the first
\* of the smallest entries in insertion order.
firstSmallest(depths) ==
    LET m == CHOOSE i \in 1..Len(depths) :
                 /\ \A j \in 1..Len(depths) : depths[i].dist <= depths[j].dist
                 /\ \A j \in 1..(i - 1) : depths[j].dist > depths[i].dist
    IN depths[m]

getMinPenetrationVector(obb, point) ==
    LET minPen == firstSmallest(faceDepths(obb, point))
    IN multiplyScalar(obb.axes[minPen.axis], minPen.dir)

\* A penetration vector is kept as its direction (not normalised), the sphere
\* radius and the squared centre-to-box distance it was computed from: its
\* length is radius - sqrt(dist2) + 10 (the 0.01 buffer).
Penetration(dir, radius, dist2) == [dir |-> dir, radius |-> radius, dist2 |-> dist2]

\* distance = toSphere.length() <= radius.  Math.sqrt rounds the root to the
\* nearest number of the format, so a squared distance in the last place
\* above radius * radius still has the root radius (in doubles: 0.6 * 0.6 +
\* 0.8 * 0.8 = 1.0000000000000002, whose Math.sqrt is 1); on the model's
\* grid that squared distance is radius * radius + 1.
\* The 0.0001 threshold of sphereCollisionInfo is below the model unit: the
\* distance is under it exactly when it is 0.
penetrationAlong(obb, center, radius, toSphere) ==
    IF lengthSq(toSphere) <= radius * radius + 1
    THEN IF lengthSq(toSphere) = 0
         THEN [collision |-> TRUE,
               penetration |-> Some(Penetration(getMinPenetrationVector(obb, center), radius, 0))]
         ELSE [collision |-> TRUE,
               penetration |-> Some(Penetration(toSphere, radius, lengthSq(toSphere)))]
    ELSE [collision |-> FALSE, penetration |-> Null]

\* toSphere = sphere.center - closestPoint
sphereCollisionInfo(obb, center, radius) ==
    penetrationAlong(obb, center, radius, sub(center, closestPointToPoint(obb, center)))

\* penetration.length() of p is smaller than that of r, both computed for the
\* same sphere radius: the length falls as the distance grows.
lengthLess(p, r) == p.dist2 > r.dist2

\* penetration.length() >= m
lengthAtLeast(p, m) ==
    LET room == p.radius + 10 - m
    IN room >= 0 /\ room * room >= p.dist2

\* penetration.clone().normalize().y > 0.7
normalYAbove07(p) == p.dir[2] > 0 /\ 100 * p.dir[2] * p.dir[2] > 49 * lengthSq(p.dir)

\* Vector3.crossVectors(a, b)
crossVectors(a, b) ==
    <<a[2] * b[3] - a[3] * b[2], a[3] * b[1] - a[1] * b[3], a[1] * b[2] - a[2] * b[1]>>

\* projectOntoAxis: the interval the box covers on the axis
projectOntoAxis(obb, axis) ==
    LET centerProjection == dot(obb.center, axis)
        radius == Abs(dot(obb.axes[1], axis) * obb.halfSize[1])
                  + Abs(dot(obb.axes[2], axis) * obb.halfSize[2])
                  + Abs(dot(obb.axes[3], axis) * obb.halfSize[3])
    IN [min |-> centerProjection - radius, max |-> centerProjection + radius]

\* an overlap test that takes touching intervals apart on one side only
projectionsOverlapOpenOnOneSide(p1, p2) == ~(p1.max <= p2.min \/ p2.max < p1.min)

\* projectionsOverlap: touching intervals overlap
projectionsOverlap(p1, p2) == ~(p1.max < p2.min \/ p2.max < p1.min)

\* the nine edge-edge cross products in loop order, those of parallel edges
\* skipped (lengthSq() > 0.0001 fails exactly at 0 here), the others normalized
crossAxes(a, b) ==
    LET c(i, j) == crossVectors(a.axes[i], b.axes[j])
        pairs == << <<1, 1>>, <<1, 2>>, <<1, 3>>, <<2, 1>>, <<2, 2>>, <<2, 3>>,
                    <<3, 1>>, <<3, 2>>, <<3, 3>> >>
        kept == SelectSeq(pairs, LAMBDA pr : lengthSq(c(pr[1], pr[2])) > 0)
    IN [k \in 1..Len(kept) |-> setLength(c(kept[k][1], kept[k][2]), 1)]

\* the axes tested: the three of this box, the three of the other, the crosses
separatingAxes(a, b) == a.axes \o b.axes \o crossAxes(a, b)

\* the loop over the axes from the k-th on: false at the first separating axis
RECURSIVE noSeparatingAxisFrom(_, _, _, _)
noSeparatingAxisFrom(a, b, axes, k) ==
    IF k > Len(axes) THEN TRUE
    ELSE IF ~projectionsOverlap(projectOntoAxis(a, axes[k]), projectOntoAxis(b, axes[k]))
         THEN FALSE
    ELSE noSeparatingAxisFrom(a, b, axes, k + 1)

\* this.intersectsOBB(other), a being this
intersectsOBB(a, b) == noSeparatingAxisFrom(a, b, separatingAxes(a, b), 1)

----------------------------------------------------------------------------
(* Collidables.  A Wall keeps the half size computed at construction and    *)
(* re-reads centre and rotation from its mesh on every access; an Enemy     *)
(* builds a fresh axis-aligned cube around its current position.            *)

\* ignoreObject left undefined
NoIgnore == "none"

\* new Wall(mesh): center and rot are the mesh's position and rotation, obb
\* the centre and rotation of the box OrientedBoundingBox.fromMesh copied
\* from them when the Wall was constructed.
Wall(id, center, halfSize, rot) ==
    [id |-> id, kind |-> "wall", center |-> center, halfSize |-> halfSize, rot |-> rot,
     obb |-> [center |-> center, rot |-> rot]]

EnemyId == "enemy"

enemyCollisionRadius == 1000

EnemyCollidable == [id |-> EnemyId, kind |-> "enemy", center |-> Zero3,
                    halfSize |-> <<enemyCollisionRadius, enemyCollisionRadius, enemyCollisionRadius>>,
                    rot |-> 0, obb |-> Null]

\* a mesh whose rotation is not copied into the box
updateWithoutRotation(obb, c) == [center |-> c.center, rot |-> 0]

\* obb.update(mesh): the centre and the rotation of the box are overwritten
\* with the mesh's (the axes are recomputed from the rotation on use).
update(obb, c) == [center |-> c.center, rot |-> c.rot]

\* the collidable after one call of its getOrientedBoundingBox(): a Wall has
\* refreshed the box it keeps, an Enemy has written nothing
accessed(c) == IF c.kind = "wall" THEN [c EXCEPT !.obb = update(c.obb, c)] ELSE c

\* Collidable.getOrientedBoundingBox(), with the enemy standing at ePos: the
\* refreshed box of a Wall, a box built on the spot for an Enemy.
getOrientedBoundingBox(c, ePos) ==
    IF c.kind = "enemy"
    THEN OrientedBoundingBox(ePos, c.halfSize, 0)
    ELSE OrientedBoundingBox(accessed(c).obb.center, c.halfSize, accessed(c).obb.rot)

\* if (ignoreObject && collidable === ignoreObject) continue;
skipped(c, ignore) == ignore # NoIgnore /\ c.id = ignore

\* the registry after a query whose loop ran over its first n collidables
accessedUpTo(cs, n, ignore) ==
    [k \in 1..Len(cs) |-> IF k <= n /\ ~skipped(cs[k], ignore) THEN accessed(cs[k]) ELSE cs[k]]

----------------------------------------------------------------------------
(* CollisionSystem queries over a registry cs (a sequence of collidables).  *)

RECURSIVE checkCollisionFrom(_, _, _, _, _, _)
checkCollisionFrom(cs, k, ePos, position, radius, ignore) ==
    IF k > Len(cs) THEN FALSE
    ELSE IF skipped(cs[k], ignore)
         THEN checkCollisionFrom(cs, k + 1, ePos, position, radius, ignore)
    ELSE IF intersectsSphere(getOrientedBoundingBox(cs[k], ePos), position, radius)
         THEN TRUE
    ELSE checkCollisionFrom(cs, k + 1, ePos, position, radius, ignore)

checkCollision(cs, ePos, position, radius, ignore) ==
    checkCollisionFrom(cs, 1, ePos, position, radius, ignore)

\* let minPenetrationDepth = Infinity
Infinity == Null

\* the comparison against a minimum that starts at 0 instead of Infinity
depthBelowMinFromZero(pen, minPen) == minPen # Infinity /\ lengthLess(pen, minPen[1])

\* penetrationDepth < minPenetrationDepth, the minimum kept as the penetration
\* that attained it
depthBelowMin(pen, minPen) == minPen = Infinity \/ lengthLess(pen, minPen[1])

\* One iteration of the loop of getCollisionInfo on collidable c.
keepContact(acc, c, collisionInfo) ==
    IF collisionInfo.collision /\ collisionInfo.penetration # Null
    THEN IF depthBelowMin(collisionInfo.penetration[1], acc.minPen)
         THEN [collision |-> TRUE,
               penetration |-> collisionInfo.penetration,
               collidable |-> Some(c.id),
               minPen |-> collisionInfo.penetration]
         ELSE [acc EXCEPT !.collision = TRUE]
    ELSE acc

collisionInfoStep(acc, c, ePos, position, radius, ignore) ==
    IF skipped(c, ignore) THEN acc
    ELSE keepContact(acc, c,
             sphereCollisionInfo(getOrientedBoundingBox(c, ePos), position, radius))

RECURSIVE collisionInfoFrom(_, _, _, _, _, _, _)
collisionInfoFrom(cs, k, acc, ePos, position, radius, ignore) ==
    IF k > Len(cs) THEN acc
    ELSE collisionInfoFrom(cs, k + 1,
                           collisionInfoStep(acc, cs[k], ePos, position, radius, ignore),
                           ePos, position, radius, ignore)

\* the result object without the running minimum
collisionResult(r) ==
    [collision |-> r.collision, penetration |-> r.penetration, collidable |-> r.collidable]

getCollisionInfo(cs, ePos, position, radius, ignore) ==
    collisionResult(collisionInfoFrom(cs, 1,
                        [collision |-> FALSE, penetration |-> Null, collidable |-> Null,
                         minPen |-> Infinity],
                        ePos, position, radius, ignore))

\* const steps = 10
probeSteps == 10

NoGround == [collision |-> FALSE, groundY |-> Null, normal |-> Null, collidable |-> Null,
             returned |-> FALSE]

\* testSphere.center: rayStart lowered by i * stepSize
testSphereCenter(position, height, i) ==
    <<position[1], position[2] - i * (height \div probeSteps), position[3]>>

\* the result a colliding sample writes; returned is set when the normal
\* points mostly upward and the function returns early
sampleHit(c, centerY, radius, collisionInfo) ==
    [collision |-> TRUE,
     groundY |-> Some(centerY + radius),
     normal |-> collisionInfo.penetration,
     collidable |-> Some(c.id),
     returned |-> normalYAbove07(collisionInfo.penetration[1])]

\* The inner loop of checkGroundCollision on one collidable, from sample i on.
RECURSIVE probeSamples(_, _, _, _, _, _, _)
RECURSIVE probeSample(_, _, _, _, _, _, _, _)
probeSample(res, c, i, ePos, position, radius, height, collisionInfo) ==
    IF collisionInfo.collision /\ collisionInfo.penetration # Null
    THEN IF normalYAbove07(collisionInfo.penetration[1])
         THEN sampleHit(c, testSphereCenter(position, height, i)[2], radius, collisionInfo)
         ELSE probeSamples(sampleHit(c, testSphereCenter(position, height, i)[2], radius,
                                     collisionInfo),
                           c, i + 1, ePos, position, radius, height)
    ELSE probeSamples(res, c, i + 1, ePos, position, radius, height)

probeSamples(res, c, i, ePos, position, radius, height) ==
    IF i > probeSteps THEN res
    ELSE probeSample(res, c, i, ePos, position, radius, height,
                     sphereCollisionInfo(getOrientedBoundingBox(c, ePos),
                                         testSphereCenter(position, height, i), radius))

\* The outer loop of checkGroundCollision from collidable k on.
RECURSIVE groundFrom(_, _, _, _, _, _, _, _)
RECURSIVE groundAfter(_, _, _, _, _, _, _, _)
groundAfter(cs, k, r, ePos, position, radius, height, ignore) ==
    IF r.returned THEN r
    ELSE groundFrom(cs, k + 1, r, ePos, position, radius, height, ignore)

groundFrom(cs, k, res, ePos, position, radius, height, ignore) ==
    IF k > Len(cs) THEN res
    ELSE IF skipped(cs[k], ignore)
         THEN groundFrom(cs, k + 1, res, ePos, position, radius, height, ignore)
    ELSE groundAfter(cs, k, probeSamples(res, cs[k], 0, ePos, position, radius, height),
                     ePos, position, radius, height, ignore)

\* the result object without the early-return mark
groundResult(r) ==
    [collision |-> r.collision, groundY |-> r.groundY, normal |-> r.normal,
     collidable |-> r.collidable]

checkGroundCollision(cs, ePos, position, radius, height, ignore) ==
    groundResult(groundFrom(cs, 1, NoGround, ePos, position, radius, height, ignore))

----------------------------------------------------------------------------
(* The angular fan search shared (by copy) between Player and Enemy.        *)

\* Math.cos and Math.sin of -PI/2 + i * PI / (angleCount - 1), times 1000
cos16 == <<0, 208, 407, 588, 743, 866, 951, 995, 995, 951, 866, 743, 588, 407, 208, 0>>

sin16 == <<-1000, -978, -914, -809, -669, -500, -309, -105,
           105, 309, 500, 669, 809, 914, 978, 1000>>

cos8 == <<0, 434, 782, 975, 975, 782, 434, 0>>

sin8 == <<-1000, -901, -623, -223, 223, 623, 901, 1000>>

fanCos(angleCount, i) == IF angleCount = 16 THEN cos16[i + 1] ELSE cos8[i + 1]

fanSin(angleCount, i) == IF angleCount = 16 THEN sin16[i + 1] ELSE sin8[i + 1]

\* rotatedDir: moveDir turned by the i-th angle and scaled to `scale`
rotatedDir(moveVector, scale, angleCount, i) ==
    LET moveDir == setLength(moveVector, 1000)
        c == fanCos(angleCount, i)
        sn == fanSin(angleCount, i)
    IN <<RDiv((moveDir[1] * c - moveDir[3] * sn) * scale, 1000000),
         0,
         RDiv((moveDir[1] * sn + moveDir[3] * c) * scale, 1000000)>>

\* rotatedDir.length() * Math.max(0, dotWithOriginal) for the candidate rd,
\* l being moveVector.length()
weightOf(rd, moveVector, l) == ISqrt(lengthSq(rd)) * Max(0, RDiv(dot(rd, moveVector), l))

\* effectiveDistance of candidate i.  A zero moveVector makes dotWithOriginal
\* NaN, which compares false: 0 here.  At the two perpendicular angles the
\* floating-point cosine is not exactly 0 and the product may come out 0 or a
\* tiny positive number: perp says which.
effectiveDistance(moveVector, scale, angleCount, i, perp) ==
    IF lengthSq(moveVector) = 0 THEN 0
    ELSE IF i = 0 THEN perp[1]
    ELSE IF i = angleCount - 1 THEN perp[2]
    ELSE weightOf(rotatedDir(moveVector, scale, angleCount, i), moveVector,
                  ISqrt(lengthSq(moveVector)))

\* a loop that does not skip the candidates that collide
fanStepWithoutCollisionTest(cs, ePos, radius, best, testPos, eff) ==
    IF eff > best.bestDistance
    THEN [bestDistance |-> eff, bestPosition |-> testPos]
    ELSE best

\* one candidate of the loop: skipped if it collides, kept if it scores higher
fanStep(cs, ePos, radius, best, testPos, eff) ==
    IF checkCollision(cs, ePos, testPos, radius, NoIgnore) THEN best
    ELSE IF eff > best.bestDistance
         THEN [bestDistance |-> eff, bestPosition |-> testPos]
         ELSE best

\* the loop of findBestSlidingDirection from candidate i on; best is
\* (bestDistance, bestPosition)
RECURSIVE fanSearch(_, _, _, _, _, _, _, _, _, _)
fanSearch(cs, ePos, startPos, moveVector, scale, radius, angleCount, i, best, perp) ==
    IF i >= angleCount THEN best
    ELSE fanSearch(cs, ePos, startPos, moveVector, scale, radius, angleCount, i + 1,
                   fanStep(cs, ePos, radius, best,
                           add(startPos, rotatedDir(moveVector, scale, angleCount, i)),
                           effectiveDistance(moveVector, scale, angleCount, i, perp)),
                   perp)

\* if (bestDistance > 0) the position becomes bestPosition
applyBest(best, current) ==
    IF best.bestDistance > 0
    THEN [moved |-> TRUE, pos |-> best.bestPosition]
    ELSE [moved |-> FALSE, pos |-> current]

\* the position findBestSlidingDirection leaves the actor at, current being
\* its position when the search starts
findBestSlidingDirection(cs, ePos, current, startPos, moveVector, scale, radius, angleCount, perp) ==
    applyBest(fanSearch(cs, ePos, startPos, moveVector, scale, radius, angleCount, 0,
                        [bestDistance |-> 0, bestPosition |-> startPos], perp),
              current)

\* mv minus its component along the contact normal:
\* moveVector.clone().sub(wallNormal.clone().multiplyScalar(dot))
projectOnWall(moveVector, pen) ==
    LET n2 == lengthSq(pen.dir)
        d == dot(moveVector, pen.dir)
    IN <<moveVector[1] - RDiv(pen.dir[1] * d, n2),
         moveVector[2] - RDiv(pen.dir[2] * d, n2),
         moveVector[3] - RDiv(pen.dir[3] * d, n2)>>

----------------------------------------------------------------------------
(* Player (the current class, player.ts lines 7-741).  The camera yaw stays *)
(* 0, so the key direction is the world direction.                          *)

speed == 200

collisionRadius == 1500

gravity == 20

jumpForce == 300

standingHeight == 1500

playerHeight == 3000

jumpCooldown == 200

maxStepHeight == 500

climbDuration == 200

terminalVelocity == -500

absoluteMinY == 500

playerAngleCount == 16

\* direction.normalize() then multiplyScalar(speed), for a key direction with
\* components in -1..1
moveVectorOf(direction, sp) == setLength(multiplyScalar(direction, 1000), sp)

\* the y of a vector replaced
withY(v, y) == <<v[1], y, v[3]>>

\* the tail of tryStepUp: the climb is armed if the ground found under the
\* raised position lies within the step range above originalPosition
stepOnto(groundCheck, originalPosition) ==
    IF groundCheck.collision /\ groundCheck.groundY # Null
    THEN IF /\ groundCheck.groundY[1] + standingHeight - originalPosition[2] > 0
            /\ groundCheck.groundY[1] + standingHeight - originalPosition[2] <= maxStepHeight
         THEN [armed |-> TRUE, groundHeight |-> groundCheck.groundY[1] + standingHeight]
         ELSE [armed |-> FALSE, groundHeight |-> 0]
    ELSE [armed |-> FALSE, groundHeight |-> 0]

\* the head of tryStepUp, stepTestPosition being newPosition raised
stepFrom(cs, ePos, grounded, originalPosition, stepTestPosition) ==
    IF ~grounded THEN [armed |-> FALSE, groundHeight |-> 0]
    ELSE IF checkCollision(cs, ePos, stepTestPosition, collisionRadius, NoIgnore)
         THEN [armed |-> FALSE, groundHeight |-> 0]
    ELSE stepOnto(checkGroundCollision(cs, ePos, stepTestPosition, collisionRadius,
                                       maxStepHeight + 100, NoIgnore),
                  originalPosition)

\* tryStepUp: whether a climb is armed and the y it would climb to
tryStepUp(cs, ePos, grounded, originalPosition, newPosition) ==
    stepFrom(cs, ePos, grounded, originalPosition,
             withY(newPosition, newPosition[2] + maxStepHeight))

\* projectedMove cut back to speed if longer
cutToSpeed(projectedMove) ==
    IF lengthSq(projectedMove) > speed * speed THEN setLength(projectedMove, speed)
    ELSE projectedMove

\* the slide is taken if projectedMove is not zero and slidingPosition is free
slideTo(cs, ePos, originalPosition, raw, slidingPosition) ==
    IF lengthSq(raw) > 0
       /\ ~checkCollision(cs, ePos, slidingPosition, collisionRadius, NoIgnore)
    THEN [ok |-> TRUE, pos |-> slidingPosition]
    ELSE [ok |-> FALSE, pos |-> originalPosition]

\* slidingPosition takes only x and z of the projected move
slideAlong(cs, ePos, originalPosition, raw, projectedMove) ==
    slideTo(cs, ePos, originalPosition, raw,
            <<originalPosition[1] + projectedMove[1], originalPosition[2],
              originalPosition[3] + projectedMove[3]>>)

slideBy(cs, ePos, originalPosition, raw) ==
    slideAlong(cs, ePos, originalPosition, raw, cutToSpeed(raw))

\* the slide of Player.update
playerSlide(cs, ePos, originalPosition, moveVector, collisionInfo) ==
    IF collisionInfo.penetration # Null /\ collisionInfo.collidable # Null
    THEN slideBy(cs, ePos, originalPosition,
                 projectOnWall(moveVector, collisionInfo.penetration[1]))
    ELSE [ok |-> FALSE, pos |-> originalPosition]

\* the end of Player.update: the fan search decides
playerAfterFan(originalPosition, fan) ==
    IF fan.moved
    THEN [attempt |-> "fan", pos |-> fan.pos, climbTo |-> Null]
    ELSE [attempt |-> "blocked", pos |-> originalPosition, climbTo |-> Null]

\* Player.update after a refused step-up: the slide, then the fan search
playerAfterSlide(cs, ePos, originalPosition, moveVector, perp, slide) ==
    IF slide.ok
    THEN [attempt |-> "slide", pos |-> slide.pos, climbTo |-> Null]
    ELSE playerAfterFan(originalPosition,
             findBestSlidingDirection(cs, ePos, originalPosition, originalPosition,
                                      moveVector, speed, collisionRadius, playerAngleCount,
                                      perp))

\* Player.update after a colliding direct move: the step-up, then the rest
playerAfterStep(cs, ePos, originalPosition, newPosition, moveVector, perp, collisionInfo, step) ==
    IF step.armed
    THEN [attempt |-> "stepup", pos |-> originalPosition,
          climbTo |-> Some(withY(newPosition, step.groundHeight))]
    ELSE playerAfterSlide(cs, ePos, originalPosition, moveVector, perp,
                          playerSlide(cs, ePos, originalPosition, moveVector, collisionInfo))

playerAfterDirect(cs, ePos, originalPosition, newPosition, moveVector, grounded, perp, collisionInfo) ==
    IF ~collisionInfo.collision
    THEN [attempt |-> "direct", pos |-> newPosition, climbTo |-> Null]
    ELSE playerAfterStep(cs, ePos, originalPosition, newPosition, moveVector, perp,
                         collisionInfo,
                         tryStepUp(cs, ePos, grounded, originalPosition, newPosition))

playerFrom(cs, ePos, originalPosition, newPosition, moveVector, grounded, perp) ==
    playerAfterDirect(cs, ePos, originalPosition, newPosition, moveVector, grounded, perp,
                      getCollisionInfo(cs, ePos, newPosition, collisionRadius, NoIgnore))

\* The horizontal part of Player.update (lines 241-312) from originalPosition
\* with a non-zero moveVector: the attempt that decided it, the position it
\* leaves, and the climb it arms.
playerResolve(cs, ePos, originalPosition, moveVector, grounded, perp) ==
    playerFrom(cs, ePos, originalPosition,
               <<originalPosition[1] + moveVector[1], originalPosition[2],
                 originalPosition[3] + moveVector[3]>>,
               moveVector, grounded, perp)

\* dt = Math.min(deltaTime / 16.67, 2.0), times 1000; deltaTime in units of
\* 0.01 ms
normalizedDt(deltaTime) == Min(RDiv(deltaTime * 1000, 1667), 2000)

\* the end of updateVerticalMovement: the move by verticalVelocity * dt, the
\* terminal velocity and the minimum-height failsafe
verticalMove(pos, vv, onGround, lj, dt, jump) ==
    IF pos[2] + RDiv(vv * dt, 1000) < absoluteMinY + standingHeight
    THEN [pos |-> withY(pos, absoluteMinY + standingHeight), vv |-> 0,
          onGround |-> TRUE, lastJumpTime |-> lj, jumped |-> jump, snapped |-> FALSE]
    ELSE [pos |-> withY(pos, pos[2] + RDiv(vv * dt, 1000)),
          vv |-> IF vv < terminalVelocity THEN terminalVelocity ELSE vv,
          onGround |-> onGround, lastJumpTime |-> lj, jumped |-> jump, snapped |-> FALSE]

\* a ceiling test at the head where it stands, the upward move left out
ceilingHitWithoutMove(cs, ePos, pos, vv, dt) ==
    getCollisionInfo(cs, ePos,
                     withY(pos, pos[2] + RDiv(standingHeight * 5, 10)),
                     RDiv(collisionRadius * 5, 10), NoIgnore).collision

\* the ceiling test: a sphere of half the radius at the head, moved up
ceilingHit(cs, ePos, pos, vv, dt) ==
    getCollisionInfo(cs, ePos,
                     withY(pos, pos[2] + RDiv(standingHeight * 5, 10) + RDiv(vv * dt, 1000)),
                     RDiv(collisionRadius * 5, 10), NoIgnore).collision

\* a ground snap that keeps the vertical velocity
verticalOnGroundKeepingVelocity(cs, ePos, pos, vv, onGround, lj, dt, jump, groundCheck) ==
    IF groundCheck.collision /\ groundCheck.groundY # Null
    THEN IF vv <= 0 /\ pos[2] <= groundCheck.groundY[1] + standingHeight + 100
         THEN [pos |-> withY(pos, groundCheck.groundY[1] + standingHeight), vv |-> vv,
               onGround |-> TRUE, lastJumpTime |-> lj, jumped |-> jump, snapped |-> TRUE]
         ELSE verticalMove(pos, IF vv > 0 /\ ceilingHit(cs, ePos, pos, vv, dt) THEN 0 ELSE vv,
                           onGround, lj, dt, jump)
    ELSE verticalMove(pos, IF vv > 0 /\ ceilingHit(cs, ePos, pos, vv, dt) THEN 0 ELSE vv,
                      FALSE, lj, dt, jump)

\* updateVerticalMovement once the ground probe has answered
verticalOnGround(cs, ePos, pos, vv, onGround, lj, dt, jump, groundCheck) ==
    IF groundCheck.collision /\ groundCheck.groundY # Null
    THEN IF vv <= 0 /\ pos[2] <= groundCheck.groundY[1] + standingHeight + 100
         THEN [pos |-> withY(pos, groundCheck.groundY[1] + standingHeight), vv |-> 0,
               onGround |-> TRUE, lastJumpTime |-> lj, jumped |-> jump, snapped |-> TRUE]
         ELSE verticalMove(pos, IF vv > 0 /\ ceilingHit(cs, ePos, pos, vv, dt) THEN 0 ELSE vv,
                           onGround, lj, dt, jump)
    ELSE verticalMove(pos, IF vv > 0 /\ ceilingHit(cs, ePos, pos, vv, dt) THEN 0 ELSE vv,
                      FALSE, lj, dt, jump)

\* updateVerticalMovement once the jump is decided
verticalAfterJump(cs, ePos, pos, vv, onGround, lastJump, dt, currentTime, jump) ==
    verticalOnGround(cs, ePos, pos,
                     IF jump THEN jumpForce ELSE vv,
                     IF jump THEN FALSE ELSE onGround,
                     IF jump THEN currentTime ELSE lastJump,
                     dt, jump,
                     checkGroundCollision(cs, ePos, pos, collisionRadius, playerHeight, NoIgnore))

\* a jump decided without the cooldown
updateVerticalMovementWithoutCooldown(cs, ePos, pos, vv, onGround, lastJump, spacePressed, deltaTime, currentTime) ==
    verticalAfterJump(cs, ePos, pos,
                      vv - RDiv(gravity * normalizedDt(deltaTime), 1000),
                      onGround, lastJump, normalizedDt(deltaTime), currentTime,
                      spacePressed /\ onGround)

\* Player.updateVerticalMovement from position pos: the new position and
\* vertical state.  jumped and snapped tell what the tick did.
updateVerticalMovement(cs, ePos, pos, vv, onGround, lastJump, spacePressed, deltaTime, currentTime) ==
    verticalAfterJump(cs, ePos, pos,
                      vv - RDiv(gravity * normalizedDt(deltaTime), 1000),
                      onGround, lastJump, normalizedDt(deltaTime), currentTime,
                      spacePressed /\ onGround /\ currentTime - lastJump > jumpCooldown)

\* Math.sin(progress * PI / 2) times 1000, progress in sixteenths
sinQuarter == <<0, 105, 208, 309, 407, 500, 588, 669, 743, 809, 866, 914, 951, 978, 995, 1000>>

lerpVectors(a, b, t1000) ==
    <<a[1] + RDiv((b[1] - a[1]) * t1000, 1000),
      a[2] + RDiv((b[2] - a[2]) * t1000, 1000),
      a[3] + RDiv((b[3] - a[3]) * t1000, 1000)>>

\* a completion that keeps the vertical velocity
updateStepClimbingKeepingVelocity(pos, vv, c, currentTime) ==
    IF currentTime - c.startTime >= climbDuration
    THEN [pos |-> c.targetPosition, vv |-> vv, climbing |-> FALSE]
    ELSE [pos |-> lerpVectors(c.startPosition, c.targetPosition,
                              sinQuarter[1 + ((currentTime - c.startTime) * 15) \div climbDuration]),
          vv |-> vv, climbing |-> TRUE]

\* Player.updateStepClimbing at time currentTime
updateStepClimbing(pos, vv, c, currentTime) ==
    LET elapsedTime == currentTime - c.startTime
        easedProgress == sinQuarter[1 + (elapsedTime * 15) \div climbDuration]
    IN IF elapsedTime >= climbDuration
       THEN [pos |-> c.targetPosition, vv |-> 0, climbing |-> FALSE]
       ELSE [pos |-> lerpVectors(c.startPosition, c.targetPosition, easedProgress),
             vv |-> vv, climbing |-> TRUE]

----------------------------------------------------------------------------
(* Enemy.moveTowardsWithCollision (part_001) and the update of the earlier  *)
(* Player class (player.ts lines 749-1114): slide, axis-separated moves,    *)
(* fan search of 8 angles.                                                  *)

enemySpeed == 30

enemyAngleCount == 8

legacyCollisionRadius == 500

legacyAngleCount == 8

\* moveDirection = (target - position).normalize(); moveDirection.y = 0;
\* moveVector = moveDirection * speed
enemyMoveVector(position, target, sp) ==
    LET d == setLength(sub(target, position), 1000)
    IN <<RDiv(d[1] * sp, 1000), 0, RDiv(d[3] * sp, 1000)>>

\* the last attempt: the fan search
afterAxes(originalPosition, fan) ==
    IF fan.moved
    THEN [attempt |-> "fan", pos |-> fan.pos]
    ELSE [attempt |-> "blocked", pos |-> originalPosition]

\* the second attempt: each axis on its own; every accepted axis is applied
axisMoves(cs, ePos, originalPosition, moveVector, radius, fanScale, angleCount, perp, canMoveX, canMoveZ) ==
    IF canMoveX \/ canMoveZ
    THEN [attempt |-> "axis",
          pos |-> <<IF canMoveX THEN originalPosition[1] + moveVector[1]
                                ELSE originalPosition[1],
                    originalPosition[2],
                    IF canMoveZ THEN originalPosition[3] + moveVector[3]
                                ELSE originalPosition[3]>>]
    ELSE afterAxes(originalPosition,
             findBestSlidingDirection(cs, ePos, originalPosition, originalPosition,
                                      moveVector, fanScale, radius, angleCount, perp))

afterSlide(cs, ePos, originalPosition, moveVector, radius, fanScale, angleCount, perp) ==
    axisMoves(cs, ePos, originalPosition, moveVector, radius, fanScale, angleCount, perp,
              ~checkCollision(cs, ePos, add(originalPosition, <<moveVector[1], 0, 0>>),
                              radius, NoIgnore),
              ~checkCollision(cs, ePos, add(originalPosition, <<0, 0, moveVector[3]>>),
                              radius, NoIgnore))

\* the first attempt: projectedMove rescaled to speed whenever it is not zero
slideRescaled(cs, ePos, originalPosition, moveVector, sp, radius, fanScale, angleCount, perp, raw) ==
    IF lengthSq(raw) > 0
       /\ ~checkCollision(cs, ePos, add(originalPosition, setLength(raw, sp)), radius, NoIgnore)
    THEN [attempt |-> "slide", pos |-> add(originalPosition, setLength(raw, sp))]
    ELSE afterSlide(cs, ePos, originalPosition, moveVector, radius, fanScale, angleCount, perp)

afterDirect(cs, ePos, originalPosition, moveVector, sp, radius, fanScale, angleCount, perp, collisionInfo) ==
    IF ~collisionInfo.collision
    THEN [attempt |-> "direct", pos |-> add(originalPosition, moveVector)]
    ELSE IF collisionInfo.penetration # Null /\ collisionInfo.collidable # Null
    THEN slideRescaled(cs, ePos, originalPosition, moveVector, sp, radius, fanScale,
                       angleCount, perp,
                       projectOnWall(moveVector, collisionInfo.penetration[1]))
    ELSE afterSlide(cs, ePos, originalPosition, moveVector, radius, fanScale, angleCount, perp)

\* The resolution both classes carry: the first collision test ignores
\* `self`, every later test ignores nothing.
slideAxisFanResolve(cs, ePos, originalPosition, moveVector, sp, radius, self, fanScale, angleCount, perp) ==
    afterDirect(cs, ePos, originalPosition, moveVector, sp, radius, fanScale, angleCount, perp,
                getCollisionInfo(cs, ePos, add(originalPosition, moveVector), radius, self))

\* Enemy.moveTowardsWithCollision: the enemy's own box stands at its position
enemyResolve(cs, originalPosition, moveVector, sp, perp) ==
    slideAxisFanResolve(cs, originalPosition, originalPosition, moveVector, sp,
                        enemyCollisionRadius, EnemyId, ISqrt(lengthSq(moveVector)),
                        enemyAngleCount, perp)

\* the earlier Player.update from originalPosition
legacyResolve(cs, ePos, originalPosition, moveVector, perp) ==
    slideAxisFanResolve(cs, ePos, originalPosition, moveVector, speed,
                        legacyCollisionRadius, NoIgnore, speed, legacyAngleCount, perp)

----------------------------------------------------------------------------
(* Obstacles as Level.createWall and Level.createStep register them (floor  *)
(* planes are not registered; a block is a box of any size).                *)

\* a cube around the origin
Cube == Wall("cube", <<0, 0, 0>>, <<1000, 1000, 1000>>, 0)

\* a lower slab that overlaps the cube on its +X side
Slab == Wall("slab", <<1500, 0, 0>>, <<1000, 500, 1000>>, 0)

\* a block whose top surface is at y = -2000
Floor == Wall("floor", <<0, -2500, 0>>, <<4000, 500, 4000>>, 0)

\* a plate turned a quarter turn about Y: it spans x in -500..500, z in 500..4500
Plate == Wall("plate", <<0, 0, 2500>>, <<2000, 1000, 500>>, 1)

Pool == {Cube, Slab, Floor, Plate, EnemyCollidable}

\* a box turned a quarter turn whose face at x = 1000 lies on the cube's face
Neighbour == Wall("neighbour", <<2000, 0, 0>>, <<1000, 1000, 1000>>, 1)

\* the boxes intersectsOBB is asked about
TestBoxes == Pool \cup {Neighbour}

\* the y of the top face of a box (every rotation is about Y)
topOf(c, ePos) == LET b == getOrientedBoundingBox(c, ePos) IN b.center[2] + b.halfSize[2]

\* the position is over the box's footprint
overFootprint(c, ePos, position) ==
    LET b == getOrientedBoundingBox(c, ePos)
        l == sub(position, b.center)
    IN Abs(dot(l, b.axes[1])) <= b.halfSize[1] /\ Abs(dot(l, b.axes[3])) <= b.halfSize[3]

byId(cs, id) == cs[CHOOSE k \in 1..Len(cs) : cs[k].id = id]

MaxCollidables == 2

QueryPoints ==
    { <<0, 0, 0>>, <<900, 0, 0>>, <<1200, 0, 0>>, <<1500, 0, 0>>, <<1600, 900, 0>>,
      <<1400, 1500, 0>>, <<3000, 0, -3000>>, <<3000, -900, -3000>>, <<0, 0, 2500>>,
      <<400, 0, 1300>>, <<0, 2600, 0>>, <<2000, 2000, 2000>>, <<1500, 1001, 0>> }

QueryRadii == {500, 1500}

\* playerHeight and maxStepHeight + 0.1, the two probe heights the Player uses
ProbeHeights == {3000, 600}

EnemySpawn == <<1500, 0, 0>>

\* Health and armor are counted in thirds of a point: the armor absorbs
\* amount * (2 / 3) of a hit of `amount` points.
maxHealth == 300

maxArmor == 300

damageInvulnerabilityTime == 500

\* the Player as its field initializers leave it
NewPlayer == [health |-> maxHealth, armor |-> 0, isDead |-> FALSE, lastDamageTime |-> 0,
              lastShotTime |-> 0]

\* Player.takeDamage(amount), amount in points, at time currentTime, with the
\* die() it calls
takeDamage(p, amount, currentTime) ==
    IF currentTime - p.lastDamageTime < damageInvulnerabilityTime THEN p
    ELSE LET armorAbsorption == IF p.armor > 0 THEN Min(p.armor, 2 * amount) ELSE 0
             health == p.health - (3 * amount - armorAbsorption)
         IN [p EXCEPT !.lastDamageTime = currentTime,
                      !.armor = p.armor - armorAbsorption,
                      !.health = IF health <= 0 THEN 0 ELSE health,
                      !.isDead = p.isDead \/ health <= 0]

\* Player.heal(amount)
heal(p, amount) == [p EXCEPT !.health = Min(p.health + 3 * amount, maxHealth)]

\* Player.addArmor(amount)
addArmor(p, amount) == [p EXCEPT !.armor = Min(p.armor + 3 * amount, maxArmor)]

\* ENEMY_DEFINITIONS[EnemyType.IMP]
impHealth == 60

impDamage == 10

attackRange == 1500

detectionRange == 15000

attackCooldown == 1000

\* the Enemy as its constructor leaves it
NewEnemy == [state |-> "IDLE", health |-> impHealth, lastAttackTime |-> 0]

\* a takeDamage that leaves the DAMAGED state to the enemy it kills
enemyTakeDamageWithoutDie(e, amount) ==
    [e EXCEPT !.health = e.health - amount, !.state = "DAMAGED"]

\* Enemy.takeDamage(amount) with the setState and die() it calls
enemyTakeDamage(e, amount) ==
    [e EXCEPT !.health = e.health - amount,
              !.state = IF e.health - amount <= 0 THEN "DYING" ELSE "DAMAGED"]

\* Enemy.updateState: the state after the transition for the player being
\* within the detection range and within the attack range or not
updateState(state, detected, inReach) ==
    CASE state \in {"IDLE", "PATROLLING"} -> IF detected THEN "CHASING" ELSE state
      [] state = "CHASING" -> IF ~detected THEN "PATROLLING"
                              ELSE IF inReach THEN "ATTACKING" ELSE state
      [] state = "ATTACKING" -> IF ~inReach THEN "CHASING" ELSE state
      [] state = "DAMAGED" -> IF detected THEN "CHASING" ELSE "IDLE"
      [] OTHER -> state

\* the session fields after the constructor of Game: one enemy spawned, no
\* frame requested yet
InitSession ==
    /\ player = NewPlayer
    /\ enemy = NewEnemy
    /\ enemies = <<EnemyId>>
    /\ gameOver = FALSE
    /\ pending = 0

NoQuery == [op |-> "none", position |-> Zero3, radius |-> 0, height |-> 0,
            ignore |-> NoIgnore, box |-> "none", other |-> "none", hit |-> FALSE,
            info |-> [collision |-> FALSE, penetration |-> Null, collidable |-> Null],
            ground |-> [collision |-> FALSE, groundY |-> Null, normal |-> Null,
                        collidable |-> Null]]

\* last: what the latest update did.  input is the key direction (the offset
\* of the target for an enemy), before the actor's position when the handler
\* was entered, from the originalPosition of its horizontal part.
NoUpdate == [actor |-> "none", attempt |-> "none", input |-> Zero3, before |-> Zero3,
             from |-> Zero3, moveVector |-> Zero3, grounded |-> FALSE, perp |-> <<0, 0>>]

InitPlayer ==
    /\ playerPos = Zero3
    /\ verticalVelocity = 0
    /\ isOnGround = FALSE
    /\ isClimbing = FALSE
    /\ climb = [startTime |-> 0, startPosition |-> Zero3, targetPosition |-> Zero3]
    /\ lastJumpTime = 0
    /\ legacyPos = Zero3

QueryInit ==
    /\ collidables = <<>>
    /\ q = NoQuery
    /\ InitPlayer
    /\ enemyPos = EnemySpawn
    /\ now = 0
    /\ ticks = 0
    /\ last = NoUpdate
    /\ pc = "player"
    /\ InitSession

QueryFrame == UNCHANGED <<playerPos, verticalVelocity, isOnGround, isClimbing, climb,
                          lastJumpTime, legacyPos, enemyPos, now, ticks, last, pc, sessionVars>>

\* CollisionSystem.addCollidable(collidable)
AddCollidable(c) ==
    /\ Len(collidables) < MaxCollidables
    /\ collidables' = Append(collidables, c)
    /\ q' = NoQuery
    /\ QueryFrame

QueryCheckCollision(position, radius, ignore) ==
    /\ q.op = "none"
    /\ q' = [NoQuery EXCEPT !.op = "checkCollision", !.position = position,
                            !.radius = radius, !.ignore = ignore,
                            !.hit = checkCollision(collidables, enemyPos, position, radius, ignore)]
    /\ LET hits == {k \in 1..Len(collidables) :
                        /\ ~skipped(collidables[k], ignore)
                        /\ intersectsSphere(getOrientedBoundingBox(collidables[k], enemyPos),
                                            position, radius)}
           n == IF hits = {} THEN Len(collidables) ELSE CHOOSE k \in hits : \A j \in hits : k <= j
       IN collidables' = accessedUpTo(collidables, n, ignore)
    /\ QueryFrame

QueryGetCollisionInfo(position, radius, ignore) ==
    /\ q.op = "none"
    /\ q' = [NoQuery EXCEPT !.op = "getCollisionInfo", !.position = position,
                            !.radius = radius, !.ignore = ignore,
                            !.info = getCollisionInfo(collidables, enemyPos, position, radius, ignore)]
    /\ collidables' = accessedUpTo(collidables, Len(collidables), ignore)
    /\ QueryFrame

QueryCheckGroundCollision(position, radius, height, ignore) ==
    /\ q.op = "none"
    /\ q' = [NoQuery EXCEPT !.op = "checkGroundCollision", !.position = position,
                            !.radius = radius, !.height = height, !.ignore = ignore,
                            !.ground = checkGroundCollision(collidables, enemyPos, position,
                                                            radius, height, ignore)]
    /\ LET raw == groundFrom(collidables, 1, NoGround, enemyPos, position, radius, height, ignore)
           n == IF raw.returned
                THEN CHOOSE k \in 1..Len(collidables) :
                         /\ collidables[k].id = raw.collidable[1]
                         /\ \A j \in 1..(k - 1) : collidables[j].id # raw.collidable[1]
                ELSE Len(collidables)
       IN collidables' = accessedUpTo(collidables, n, ignore)
    /\ QueryFrame

\* obb.sphereCollisionInfo(sphere) on the box of one registered collidable
QuerySphereCollisionInfo(k, position, radius) ==
    /\ q.op = "none"
    /\ k \in 1..Len(collidables)
    /\ LET r == sphereCollisionInfo(getOrientedBoundingBox(collidables[k], enemyPos),
                                    position, radius)
       IN q' = [NoQuery EXCEPT !.op = "sphereCollisionInfo", !.position = position,
                               !.radius = radius, !.box = collidables[k].id,
                               !.info = [collision |-> r.collision,
                                         penetration |-> r.penetration,
                                         collidable |-> Null]]
    /\ collidables' = [collidables EXCEPT ![k] = accessed(collidables[k])]
    /\ QueryFrame

\* a.getOrientedBoundingBox().intersectsOBB(b.getOrientedBoundingBox())
QueryIntersectsOBB(a, b) ==
    /\ q.op = "none"
    /\ q' = [NoQuery EXCEPT !.op = "intersectsOBB", !.box = a.id, !.other = b.id,
                            !.hit = intersectsOBB(getOrientedBoundingBox(a, enemyPos),
                                                  getOrientedBoundingBox(b, enemyPos))]
    /\ UNCHANGED collidables
    /\ QueryFrame

\* q records one query at a time: a query is made from a state whose record is
\* empty (the registry, which is all a query reads, is the same either way).
Ignores == {NoIgnore} \cup {c.id : c \in Pool}

QueryNext ==
    \/ \E c \in Pool : AddCollidable(c)
    \/ \E p \in QueryPoints, r \in QueryRadii, ig \in Ignores : QueryCheckCollision(p, r, ig)
    \/ \E p \in QueryPoints, r \in QueryRadii, ig \in Ignores : QueryGetCollisionInfo(p, r, ig)
    \/ \E p \in QueryPoints, r \in QueryRadii, h \in ProbeHeights, ig \in Ignores :
           QueryCheckGroundCollision(p, r, h, ig)
    \/ \E k \in 1..MaxCollidables, p \in QueryPoints \cup {c.center : c \in Pool}, r \in QueryRadii :
           QuerySphereCollisionInfo(k, p, r)
    \/ \E a \in TestBoxes, b \in TestBoxes : QueryIntersectsOBB(a, b)

SpecQuery == QueryInit /\ [][QueryNext]_vars

----------------------------------------------------------------------------
(* The game: the current Player and one spawned Enemy in a level.  The      *)
(* ground and the ledge are blocks, the others walls;                       *)
(* EnemyManager.spawnEnemy registers the enemy.                             *)

\* the block the room stands on, top surface at y = 0
Ground == Wall("ground", <<0, -500, 0>>, <<8000, 500, 8000>>, 0)

\* the walls of a passage: faces at z = -1600 and z = 1600 from x = 340 on,
\* closed by a wall whose face is at x = 1650
North == Wall("north", <<2340, 3000, -2100>>, <<2000, 3000, 500>>, 0)

South == Wall("south", <<2340, 3000, 2100>>, <<2000, 3000, 500>>, 0)

TallWall == Wall("tallwall", <<2150, 3000, 0>>, <<500, 3000, 1600>>, 0)

\* a ledge on the -X side, face at x = -400, top at y = 3010
Ledge == Wall("ledge", <<-900, 1505, 0>>, <<500, 1505, 1600>>, 0)

\* a post in the corner of the passage whose vertical edge at x = 968,
\* z = 1168 faces the spawn point diagonally
Post == Wall("post", <<1309, 3000, 1384>>, <<341, 3000, 216>>, 0)

GameLevel == <<Ground, North, South, TallWall, Ledge, Post, EnemyCollidable>>

\* Player.setPosition: the eye is 1.5 above the spawn point
setPosition(p) == <<p[1], p[2] + standingHeight, p[3]>>

PlayerSpawn == <<-200, 0, 0>>

\* the enemy stands outside the passage, behind the north wall
GameEnemySpawn == <<1000, 4000, -3610>>

PatrolPoint == <<4000, 4000, -3610>>

MaxTicks == 2

\* the key directions tried: none, A, D, W, S and D with S
KeyDirections ==
    {<<0, 0, 0>>, <<-1, 0, 0>>, <<1, 0, 0>>, <<0, 0, -1>>, <<0, 0, 1>>, <<1, 0, 1>>}

\* frame times of 16.67 ms and 33.34 ms
DeltaTimes == {1667, 3334}

\* the scores of the two perpendicular candidates: 0, or 1 for a tiny positive
PerpScores == {<<0, 0>>, <<0, 1>>, <<1, 0>>, <<1, 1>>}

\* A perpendicular candidate can only win when no other candidate scored:
\* res being the outcome with both at 0, the other outcomes of the rounding
\* arise only if res is blocked.
perpChoices(res) == IF res.attempt = "blocked" THEN PerpScores ELSE {<<0, 0>>}

\* perp matters only where the fan search decided
perpOf(attempt, perp) == IF attempt \in {"fan", "blocked"} THEN perp ELSE <<0, 0>>

Init ==
    /\ collidables = GameLevel
    /\ q = NoQuery
    /\ playerPos = setPosition(PlayerSpawn)
    /\ verticalVelocity = 0
    /\ isOnGround = FALSE
    /\ isClimbing = FALSE
    /\ climb = [startTime |-> 0, startPosition |-> Zero3, targetPosition |-> Zero3]
    /\ lastJumpTime = 0
    /\ legacyPos = Zero3
    /\ enemyPos = GameEnemySpawn
    /\ now = 1000
    /\ ticks = 0
    /\ last = NoUpdate
    /\ pc = "player"
    /\ InitSession

\* the climbing branch of Player.update: c is what updateStepClimbing leaves
Climb(c) ==
    /\ playerPos' = c.pos
    /\ verticalVelocity' = c.vv
    /\ isClimbing' = c.climbing
    /\ last' = [NoUpdate EXCEPT !.actor = "player", !.attempt = "climbing",
                                !.before = playerPos, !.from = playerPos,
                                !.grounded = isOnGround]
    /\ UNCHANGED <<isOnGround, lastJumpTime, climb>>

\* the rest of Player.update: v is what updateVerticalMovement left, res what
\* the horizontal part decided
Move(direction, v, res, moveVector, currentTime, perp) ==
    /\ playerPos' = res.pos
    /\ verticalVelocity' = v.vv
    /\ isOnGround' = v.onGround
    /\ lastJumpTime' = v.lastJumpTime
    /\ isClimbing' = (res.climbTo # Null)
    /\ climb' = IF res.climbTo # Null
                THEN [startTime |-> currentTime, startPosition |-> v.pos,
                      targetPosition |-> res.climbTo[1]]
                ELSE climb
    /\ last' = [actor |-> "player", attempt |-> res.attempt, input |-> direction,
                before |-> playerPos, from |-> v.pos, moveVector |-> moveVector, grounded |-> v.onGround,
                perp |-> perpOf(res.attempt, perp)]

\* if (direction.length() === 0) return; otherwise the horizontal part
horizontal(direction, v, moveVector, perp) ==
    IF direction = Zero3
    THEN [attempt |-> "still", pos |-> v.pos, climbTo |-> Null]
    ELSE playerResolve(collidables, enemyPos, v.pos, moveVector, v.onGround, perp)

Resolved(direction, v, res, moveVector, currentTime) ==
    \E perp \in perpChoices(res) :
        Move(direction, v,
             IF perp = <<0, 0>> THEN res ELSE horizontal(direction, v, moveVector, perp),
             moveVector, currentTime, perp)

AfterVertical(direction, v, moveVector, currentTime) ==
    Resolved(direction, v, horizontal(direction, v, moveVector, <<0, 0>>), moveVector,
             currentTime)

\* Player.update(inputManager, collisionSystem, deltaTime) of the current
\* class, the clock reading now + deltaTime.  (Its queries refresh the boxes
\* of the Walls with the values they hold: collidables stays as it is.)
PlayerUpdated(direction, spacePressed, deltaTime) ==
    /\ IF isClimbing
       THEN Climb(updateStepClimbing(playerPos, verticalVelocity, climb,
                                     now + RDiv(deltaTime, 100)))
       ELSE AfterVertical(direction,
                          updateVerticalMovement(collidables, enemyPos, playerPos,
                                                 verticalVelocity, isOnGround, lastJumpTime,
                                                 spacePressed, deltaTime,
                                                 now + RDiv(deltaTime, 100)),
                          moveVectorOf(direction, speed), now + RDiv(deltaTime, 100))
    /\ now' = now + RDiv(deltaTime, 100)
    /\ UNCHANGED <<collidables, q, legacyPos, enemyPos>>

\* one update of the player on its own
PlayerUpdate(direction, spacePressed, deltaTime) ==
    /\ ticks < MaxTicks
    /\ PlayerUpdated(direction, spacePressed, deltaTime)
    /\ ticks' = ticks + 1
    /\ UNCHANGED <<pc, sessionVars>>

EnemyMoved(res, moveVector, toTarget, perp) ==
    /\ enemyPos' = res.pos
    /\ last' = [actor |-> "enemy", attempt |-> res.attempt, input |-> toTarget,
                before |-> enemyPos, from |-> enemyPos, moveVector |-> moveVector, grounded |-> FALSE,
                perp |-> perpOf(res.attempt, perp)]

EnemyResolved(res, moveVector, toTarget, sp) ==
    \E perp \in perpChoices(res) :
        EnemyMoved(IF perp = <<0, 0>> THEN res
                   ELSE enemyResolve(collidables, enemyPos, moveVector, sp, perp),
                   moveVector, toTarget, perp)

EnemyMove(moveVector, toTarget, sp) ==
    EnemyResolved(enemyResolve(collidables, enemyPos, moveVector, sp, <<0, 0>>), moveVector,
                  toTarget, sp)

\* Enemy.moveTowardsWithCollision(target, speed, collisionSystem)
MoveTowardsWithCollision(target, sp) ==
    /\ ticks < MaxTicks
    /\ EnemyMove(enemyMoveVector(enemyPos, target, sp), sub(target, enemyPos), sp)
    /\ ticks' = ticks + 1
    /\ UNCHANGED <<collidables, q, playerPos, verticalVelocity, isOnGround, isClimbing, climb,
                   lastJumpTime, legacyPos, now, pc, sessionVars>>

\* chase at full speed, patrol at half speed
EnemySpeeds == {enemySpeed, enemySpeed \div 2}

Next ==
    \/ \E d \in KeyDirections, sp \in BOOLEAN, dt \in DeltaTimes : PlayerUpdate(d, sp, dt)
    \/ \E t \in {playerPos, PatrolPoint, enemyPos}, sp \in EnemySpeeds :
           MoveTowardsWithCollision(t, sp)

Spec == Init /\ [][Next]_vars

----------------------------------------------------------------------------
(* Game.update, statement by statement: the player is updated, then         *)
(* EnemyManager.update updates each enemy (there is one).                   *)

MaxFrames == 2

\* this.player.update(this.inputManager, this.level.collisionSystem, deltaTime)
UpdatePlayer(direction, spacePressed, deltaTime) ==
    /\ pc = "player"
    /\ ticks < MaxFrames
    /\ PlayerUpdated(direction, spacePressed, deltaTime)
    /\ pc' = "enemies"
    /\ UNCHANGED <<ticks, sessionVars>>

\* this.enemyManager.update(deltaTime, this.player): the enemy chases the
\* player, walks to its patrol point or stays, as its state decides
UpdateEnemies(target, sp) ==
    /\ pc = "enemies"
    /\ EnemyMove(enemyMoveVector(enemyPos, target, sp), sub(target, enemyPos), sp)
    /\ pc' = "player"
    /\ ticks' = ticks + 1
    /\ UNCHANGED <<collidables, q, playerPos, verticalVelocity, isOnGround, isClimbing, climb,
                   lastJumpTime, legacyPos, now, sessionVars>>

GameNext ==
    \/ \E d \in KeyDirections, sp \in BOOLEAN, dt \in DeltaTimes : UpdatePlayer(d, sp, dt)
    \/ \E t \in {playerPos, PatrolPoint, enemyPos}, sp \in EnemySpeeds : UpdateEnemies(t, sp)

SpecGame == Init /\ [][GameNext]_vars

----------------------------------------------------------------------------
(* A climb from the state startStepClimbing leaves.  tryStepUp arms a climb *)
(* only for a player on the ground, from originalPosition to newPosition    *)
(* raised by at most maxStepHeight; the vertical velocity is what gravity    *)
(* built up over the update that arms.                                      *)

MaxClimbTicks == 13

ClimbInit ==
    /\ collidables = GameLevel
    /\ q = NoQuery
    /\ playerPos = setPosition(<<PlayerSpawn[1], 3000, PlayerSpawn[3]>>)
    /\ verticalVelocity \in {0, -gravity, -2 * gravity}
    /\ isOnGround = TRUE
    /\ isClimbing = TRUE
    /\ \E rise \in {300, maxStepHeight}, moveVector \in {moveVectorOf(d, speed) : d \in KeyDirections \ {Zero3}} :
           climb = [startTime |-> 1000, startPosition |-> playerPos,
                    targetPosition |-> <<playerPos[1] + moveVector[1], playerPos[2] + rise,
                                         playerPos[3] + moveVector[3]>>]
    /\ lastJumpTime = 0
    /\ legacyPos = Zero3
    /\ enemyPos = GameEnemySpawn
    /\ now = 1000
    /\ ticks = 0
    /\ last = NoUpdate
    /\ pc = "player"
    /\ InitSession

\* Player.update while the climb lasts
ClimbUpdate(direction, spacePressed, deltaTime) ==
    /\ isClimbing
    /\ ticks < MaxClimbTicks
    /\ PlayerUpdated(direction, spacePressed, deltaTime)
    /\ ticks' = ticks + 1
    /\ UNCHANGED <<pc, sessionVars>>

ClimbNext == \E d \in KeyDirections, sp \in BOOLEAN, dt \in DeltaTimes : ClimbUpdate(d, sp, dt)

SpecClimb == ClimbInit /\ [][ClimbNext]_vars

----------------------------------------------------------------------------
(* The vertical part on its own: the player, no movement key down, under a  *)
(* low ceiling or spawned high above it.  The floor of the room is not a    *)
(* collidable (Level.createFloor registers none): the player stands at the  *)
(* minimum height.                                                          *)

\* a slab over the spawn point, underside at y = 3700: the sphere of the
\* standing player (top at 3500) is clear of it, the head test of a jump
\* is not
Ceiling == Wall("ceiling", <<-200, 3950, 0>>, <<1000, 250, 1000>>, 0)

\* a spawn point from which the fall lasts long enough to reach the
\* terminal velocity
HighSpawn == <<-200, 20000, 0>>

MaxVerticalTicks == 14

VerticalInit ==
    /\ collidables = <<Ceiling, EnemyCollidable>>
    /\ q = NoQuery
    /\ playerPos \in {setPosition(PlayerSpawn), setPosition(HighSpawn)}
    /\ verticalVelocity = 0
    /\ isOnGround = FALSE
    /\ isClimbing = FALSE
    /\ climb = [startTime |-> 0, startPosition |-> Zero3, targetPosition |-> Zero3]
    /\ lastJumpTime = 0
    /\ legacyPos = Zero3
    /\ enemyPos = GameEnemySpawn
    /\ now = 1000
    /\ ticks = 0
    /\ last = NoUpdate
    /\ pc = "player"
    /\ InitSession

\* Player.update with no movement key down
VerticalUpdate(spacePressed, deltaTime) ==
    /\ ticks < MaxVerticalTicks
    /\ PlayerUpdated(Zero3, spacePressed, deltaTime)
    /\ ticks' = ticks + 1
    /\ UNCHANGED <<pc, sessionVars>>

VerticalNext == \E sp \in BOOLEAN, dt \in DeltaTimes : VerticalUpdate(sp, dt)

SpecVertical == VerticalInit /\ [][VerticalNext]_vars

\* The player above the ground block beside the ledge, at the spawn height or
\* 6.0 higher, the two obstacles registered in either order.
LandingInit ==
    /\ collidables \in {<<Ground, Ledge, EnemyCollidable>>, <<Ledge, Ground, EnemyCollidable>>}
    /\ q = NoQuery
    /\ playerPos \in {setPosition(PlayerSpawn),
                      setPosition(<<PlayerSpawn[1], 6000, PlayerSpawn[3]>>)}
    /\ verticalVelocity = 0
    /\ isOnGround = FALSE
    /\ isClimbing = FALSE
    /\ climb = [startTime |-> 0, startPosition |-> Zero3, targetPosition |-> Zero3]
    /\ lastJumpTime = 0
    /\ legacyPos = Zero3
    /\ enemyPos = GameEnemySpawn
    /\ now = 1000
    /\ ticks = 0
    /\ last = NoUpdate
    /\ pc = "player"
    /\ InitSession

MaxLandingTicks == 10

\* Player.update with no movement key down
LandingUpdate(spacePressed, deltaTime) ==
    /\ ticks < MaxLandingTicks
    /\ PlayerUpdated(Zero3, spacePressed, deltaTime)
    /\ ticks' = ticks + 1
    /\ UNCHANGED <<pc, sessionVars>>

LandingNext == \E sp \in BOOLEAN, dt \in DeltaTimes : LandingUpdate(sp, dt)

SpecLanding == LandingInit /\ [][LandingNext]_vars

-----------------------------------------------------------------------------
(* The Game session: the constructor's gameLoop(0), the animation-frame     *)
(* callbacks, restart(), a shot of the player and the health calls of the   *)
(* Player.  One frame is two steps: gameLoop up to player.update, then      *)
(* enemyManager.update with what follows it.                                *)

weaponDamage == 25

weaponRange == 20000

shootCooldown == 300

\* the enemy spawn point of the level, 1.52 from the player's eye
SessionEnemySpawn == <<1236, 4000, 0>>

\* the time between the previous event and a call made between two frames:
\* none or 600 ms
Elapsed == {0, 600}

MaxSessionTicks == 6

\* mesh.position.distanceTo(playerPosition) <= range
playerWithin(range) == lengthSq(sub(enemyPos, playerPos)) <= range * range

SessionInit ==
    /\ collidables = <<Ground, EnemyCollidable>>
    /\ q = NoQuery
    /\ playerPos = setPosition(PlayerSpawn)
    /\ verticalVelocity = 0
    /\ isOnGround = FALSE
    /\ isClimbing = FALSE
    /\ climb = [startTime |-> 0, startPosition |-> Zero3, targetPosition |-> Zero3]
    /\ lastJumpTime = 0
    /\ legacyPos = Zero3
    /\ enemyPos = SessionEnemySpawn
    /\ now = 1000
    /\ ticks = 0
    /\ last = NoUpdate
    /\ pc = "start"
    /\ InitSession

\* Game.gameLoop(timestamp) up to the player.update of Game.update, called by
\* the constructor (deltaTime 0) or as an animation-frame callback.  A dead
\* player ends the frame here: gameOver is set and no frame is requested.
GameLoop(direction, spacePressed, deltaTime) ==
    /\ ticks < MaxSessionTicks
    /\ \/ pc = "start" /\ deltaTime = 0 /\ pending' = pending
       \/ pc = "idle" /\ pending > 0 /\ deltaTime # 0 /\ pending' = pending - 1
    /\ IF player.isDead
       THEN /\ gameOver' = TRUE
            /\ pc' = "idle"
            /\ now' = now + RDiv(deltaTime, 100)
            /\ UNCHANGED <<collidables, q, playerPos, verticalVelocity, isOnGround, isClimbing,
                           climb, lastJumpTime, legacyPos, enemyPos, last>>
       ELSE /\ PlayerUpdated(direction, spacePressed, deltaTime)
            /\ pc' = "enemies"
            /\ UNCHANGED gameOver
    /\ ticks' = ticks + 1
    /\ UNCHANGED <<player, enemy, enemies>>

\* Enemy.update(deltaTime, player, collisionSystem): the state transition,
\* then the handler of the new state.  patrols is the outcome of the random
\* draw of handleIdleState.
EnemyUpdated(patrols) ==
    LET state == updateState(enemy.state, playerWithin(detectionRange), playerWithin(attackRange))
    IN /\ enemy' = [enemy EXCEPT
                        !.state = IF state = "IDLE" /\ patrols THEN "PATROLLING" ELSE state,
                        !.lastAttackTime = IF state = "ATTACKING"
                                              /\ now - enemy.lastAttackTime > attackCooldown
                                           THEN now ELSE enemy.lastAttackTime]
       /\ player' = IF state = "ATTACKING" /\ now - enemy.lastAttackTime > attackCooldown
                    THEN takeDamage(player, impDamage, now)
                    ELSE player
       /\ CASE state = "PATROLLING" /\ lengthSq(sub(enemyPos, PatrolPoint)) >= 500 * 500 ->
                   EnemyMove(enemyMoveVector(enemyPos, PatrolPoint, enemySpeed \div 2),
                             sub(PatrolPoint, enemyPos), enemySpeed \div 2)
            [] state = "CHASING" ->
                   EnemyMove(enemyMoveVector(enemyPos, playerPos, enemySpeed),
                             sub(playerPos, enemyPos), enemySpeed)
            [] OTHER -> UNCHANGED <<enemyPos, last>>

\* EnemyManager.removeDeadEnemies on the list es, the enemy having health h
removeDeadEnemies(es, h) == IF h <= 0 THEN <<>> ELSE es

\* The rest of the frame: enemyManager.update, removeDeadEnemies, and the
\* request of the next frame unless the game is over.
UpdateEnemyManager(patrols) ==
    /\ pc = "enemies"
    /\ IF enemies # <<>>
       THEN EnemyUpdated(patrols)
       ELSE UNCHANGED <<enemy, player, enemyPos, last>>
    /\ enemies' = removeDeadEnemies(enemies, enemy.health)
    /\ pending' = IF gameOver THEN pending ELSE pending + 1
    /\ pc' = "idle"
    /\ UNCHANGED <<collidables, q, playerPos, verticalVelocity, isOnGround, isClimbing, climb,
                   lastJumpTime, legacyPos, now, ticks, gameOver>>

\* the registry entry of an enemy that is no longer updated: its box stays
\* where the enemy stood
left(c) == IF c.id = EnemyId THEN Wall("left", enemyPos, c.halfSize, 0) ELSE c

\* Game.restart(): a new Player, clearEnemies, spawnEnemiesFromPoints (which
\* registers the new enemy), gameOver = false and a frame request
Restart ==
    /\ pc = "idle"
    /\ ticks < MaxSessionTicks
    /\ playerPos' = setPosition(PlayerSpawn)
    /\ verticalVelocity' = 0
    /\ isOnGround' = FALSE
    /\ isClimbing' = FALSE
    /\ climb' = [startTime |-> 0, startPosition |-> Zero3, targetPosition |-> Zero3]
    /\ lastJumpTime' = 0
    /\ player' = NewPlayer
    /\ enemy' = NewEnemy
    /\ enemyPos' = SessionEnemySpawn
    /\ enemies' = <<EnemyId>>
    /\ collidables' = Append([k \in 1..Len(collidables) |-> left(collidables[k])],
                             EnemyCollidable)
    /\ gameOver' = FALSE
    /\ pending' = pending + 1
    /\ ticks' = ticks + 1
    /\ UNCHANGED <<q, legacyPos, now, last, pc>>

\* Player.shoot(enemies) on mousedown, `elapsed` after the previous event, the
\* camera aimed at the enemy: once the cooldown has passed, the enemy is hit
\* if it is on the list and within the weapon range
Shoot(elapsed) ==
    /\ pc = "idle"
    /\ ticks < MaxSessionTicks
    /\ now' = now + elapsed
    /\ IF now' - player.lastShotTime < shootCooldown
       THEN UNCHANGED <<player, enemy>>
       ELSE /\ player' = [player EXCEPT !.lastShotTime = now']
            /\ enemy' = IF enemies # <<>> /\ playerWithin(weaponRange - 1)
                        THEN enemyTakeDamage(enemy, weaponDamage)
                        ELSE enemy
    /\ ticks' = ticks + 1
    /\ UNCHANGED <<collidables, q, playerPos, verticalVelocity, isOnGround, isClimbing, climb,
                   lastJumpTime, legacyPos, enemyPos, last, pc, enemies, gameOver, pending>>

\* the frame of a call on the Player between two frames, `elapsed` after the
\* previous event
PlayerCalled(elapsed) ==
    /\ pc = "idle"
    /\ ticks < MaxSessionTicks
    /\ now' = now + elapsed
    /\ ticks' = ticks + 1
    /\ UNCHANGED <<collidables, q, playerPos, verticalVelocity, isOnGround, isClimbing, climb,
                   lastJumpTime, legacyPos, enemyPos, last, pc, enemy, enemies, gameOver,
                   pending>>

\* player.takeDamage(amount)
TakeDamage(amount, elapsed) ==
    /\ player' = takeDamage(player, amount, now + elapsed)
    /\ PlayerCalled(elapsed)

\* player.heal(amount)
Heal(amount) ==
    /\ player' = heal(player, amount)
    /\ PlayerCalled(0)

\* player.addArmor(amount)
AddArmor(amount) ==
    /\ player' = addArmor(player, amount)
    /\ PlayerCalled(0)

\* the frames: the constructor's frame has deltaTime 0, the others 16.67 ms
Frame ==
    \/ \E dt \in {0, 1667} : GameLoop(Zero3, FALSE, dt)
    \/ \E patrols \in BOOLEAN : UpdateEnemyManager(patrols)

SessionNext ==
    \/ Frame
    \/ Restart
    \/ \E elapsed \in Elapsed : Shoot(elapsed)
    \/ TakeDamage(150, 0)

SpecSession == SessionInit /\ [][SessionNext]_vars

HealthNext ==
    \/ Frame
    \/ \E amount \in {40, 150}, elapsed \in Elapsed : TakeDamage(amount, elapsed)
    \/ Heal(25)
    \/ AddArmor(50)

SpecHealth == SessionInit /\ [][HealthNext]_vars

----------------------------------------------------------------------------
(* The earlier Player class beside a pillar.                                *)

\* a pillar spanning x in 600..1400 and z in -1400..-600
Pillar == Wall("pillar", <<1000, 1500, -1000>>, <<400, 1500, 400>>, 0)

LegacyLevel == <<Pillar>>

LegacySpawn == <<150, 0, -150>>

\* moveVector = forward * (direction.z * speed) + right * (direction.x * speed)
\* with forward = (0, 0, -1), right = (1, 0, 0) and direction normalized
legacyMoveVector(direction) ==
    LET d == setLength(multiplyScalar(direction, 1000), speed)
    IN <<d[1], 0, -d[3]>>

LegacyInit ==
    /\ collidables = LegacyLevel
    /\ q = NoQuery
    /\ playerPos = Zero3
    /\ verticalVelocity = 0
    /\ isOnGround = FALSE
    /\ isClimbing = FALSE
    /\ climb = [startTime |-> 0, startPosition |-> Zero3, targetPosition |-> Zero3]
    /\ lastJumpTime = 0
    /\ legacyPos = setPosition(LegacySpawn)
    /\ enemyPos = GameEnemySpawn
    /\ now = 1000
    /\ ticks = 0
    /\ last = NoUpdate
    /\ pc = "player"
    /\ InitSession

LegacyMoved(direction, res, moveVector, perp) ==
    /\ legacyPos' = res.pos
    /\ last' = [actor |-> "legacy", attempt |-> res.attempt, input |-> direction,
                before |-> legacyPos, from |-> legacyPos, moveVector |-> moveVector, grounded |-> FALSE,
                perp |-> perpOf(res.attempt, perp)]

\* the earlier update returns before moving when no key is down
legacyHorizontal(direction, moveVector, perp) ==
    IF direction = Zero3
    THEN [attempt |-> "still", pos |-> legacyPos]
    ELSE legacyResolve(collidables, enemyPos, legacyPos, moveVector, perp)

LegacyResolved(direction, res, moveVector) ==
    \E perp \in perpChoices(res) :
        LegacyMoved(direction,
                    IF perp = <<0, 0>> THEN res
                         ELSE legacyHorizontal(direction, moveVector, perp),
                    moveVector, perp)

LegacyMove(direction, moveVector) ==
    LegacyResolved(direction, legacyHorizontal(direction, moveVector, <<0, 0>>), moveVector)

MaxLegacyTicks == 3

\* Player.update(inputManager, collisionSystem) of the earlier class
LegacyUpdate(direction) ==
    /\ ticks < MaxLegacyTicks
    /\ LegacyMove(direction, legacyMoveVector(direction))
    /\ ticks' = ticks + 1
    /\ UNCHANGED <<collidables, q, playerPos, verticalVelocity, isOnGround, isClimbing, climb,
                   lastJumpTime, enemyPos, now, pc, sessionVars>>

LegacyNext == \E d \in KeyDirections : LegacyUpdate(d)

SpecLegacy == LegacyInit /\ [][LegacyNext]_vars

----------------------------------------------------------------------------
(* Properties of the queries (checked under SpecQuery).                     *)

\* the contacts a scan of the registry meets for the recorded query
contactOf(k) ==
    sphereCollisionInfo(getOrientedBoundingBox(collidables[k], enemyPos), q.position, q.radius)

contacts == {k \in 1..Len(collidables) :
                ~skipped(collidables[k], q.ignore) /\ contactOf(k).collision}

\* C1: getCollisionInfo returns the contact of largest penetration magnitude
\* among the non-ignored obstacles the sphere overlaps.
C1_DeepestPenetrationWins ==
    (q.op = "getCollisionInfo" /\ contacts # {}) =>
        /\ q.info.collision
        /\ q.info.penetration # Null
        /\ \A k \in contacts :
               ~lengthLess(q.info.penetration[1], contactOf(k).penetration[1])

\* C2: the result of getCollisionInfo has a penetration, and an obstacle
\* reference, exactly when its collision flag is true.
C2_PenetrationIffCollision ==
    q.op = "getCollisionInfo" =>
        /\ (q.info.penetration # Null) <=> q.info.collision
        /\ (q.info.collidable # Null) <=> q.info.collision

\* a colliding query on two overlapped obstacles, and one that hits nothing
C2_Witness ==
    /\ q.op = "getCollisionInfo"
    /\ Cardinality(contacts) = 2
    /\ q.info.collision
    /\ q.info.penetration # Null

\* the samples of the recorded ground probe
sampleAt(i) == <<q.position[1], q.position[2] - i * (q.height \div probeSteps), q.position[3]>>

floorContact(k, i) ==
    LET ci == sphereCollisionInfo(getOrientedBoundingBox(collidables[k], enemyPos),
                                  sampleAt(i), q.radius)
    IN ci.collision /\ normalYAbove07(ci.penetration[1])

\* C5: checkGroundCollision reports ground only if some sample has a contact
\* whose normal has a vertical component above 0.7; otherwise collision is
\* false and groundY null.
C5_GroundOnlyFromFloorContact ==
    q.op = "checkGroundCollision" =>
        IF \E k \in 1..Len(collidables), i \in 0..probeSteps :
               ~skipped(collidables[k], q.ignore) /\ floorContact(k, i)
        THEN TRUE
        ELSE ~q.ground.collision /\ q.ground.groundY = Null

\* C6: over a flat floor directly beneath the probe start and within the probe
\* height, the probe reports the floor's top surface up to one probe step.
C6_GroundYIsFloorTop ==
    (/\ q.op = "checkGroundCollision"
     /\ Len(collidables) = 1
     /\ ~skipped(collidables[1], q.ignore)
     /\ overFootprint(collidables[1], enemyPos, q.position)
     /\ q.position[2] - q.radius > topOf(collidables[1], enemyPos)
     /\ q.position[2] - q.height - q.radius <= topOf(collidables[1], enemyPos))
    => /\ q.ground.collision
       /\ q.ground.groundY # Null
       /\ Abs(q.ground.groundY[1] - topOf(collidables[1], enemyPos)) <= q.height \div probeSteps

parallelToAxis(obb, v) ==
    \E i \in 1..3 : \E s \in {-1, 1} : v = multiplyScalar(obb.axes[i], s)

smallestHalfExtent(obb) == Min(obb.halfSize[1], Min(obb.halfSize[2], obb.halfSize[3]))

\* C7: for a sphere centred on a box's centre, sphereCollisionInfo reports a
\* collision whose penetration is parallel to a face axis and at least
\* (smallest half extent + 0.01) long.
C7_CentreContact ==
    \A k \in 1..Len(collidables) :
        LET obb == getOrientedBoundingBox(collidables[k], enemyPos)
        IN (q.op = "sphereCollisionInfo" /\ q.box = collidables[k].id /\ q.position = obb.center)
           => /\ q.info.collision
              /\ q.info.penetration # Null
              /\ parallelToAxis(obb, q.info.penetration[1].dir)
              /\ lengthAtLeast(q.info.penetration[1], smallestHalfExtent(obb) + 10)

----------------------------------------------------------------------------
(* Properties of the movement updates (checked under Spec and SpecLegacy).  *)

\* the sphere of the given radius at pos overlaps a registered obstacle other
\* than `self`, the enemy standing at ePos
overlaps(pos, radius, self, ePos) == checkCollision(collidables, ePos, pos, radius, self)

\* C3: an update of the earlier Player class, of the Player or of the Enemy
\* that starts at a position overlapping no obstacle and changes the position
\* ends at a position overlapping no obstacle
C3_ResolutionEndsFree ==
    /\ (/\ last.actor = "legacy"
        /\ legacyPos # last.from
        /\ ~overlaps(last.from, legacyCollisionRadius, NoIgnore, enemyPos))
           => ~overlaps(legacyPos, legacyCollisionRadius, NoIgnore, enemyPos)
    /\ (/\ last.actor = "player"
        /\ playerPos # last.from
        /\ ~overlaps(last.from, collisionRadius, NoIgnore, enemyPos))
           => ~overlaps(playerPos, collisionRadius, NoIgnore, enemyPos)
    /\ (/\ last.actor = "enemy"
        /\ enemyPos # last.from
        /\ ~overlaps(last.from, enemyCollisionRadius, EnemyId, last.from))
           => ~overlaps(enemyPos, enemyCollisionRadius, EnemyId, enemyPos)

\* the position the tick's direct move aims at
aimed == add(last.from, last.moveVector)

\* the aimed position raised by the step height
raised == withY(aimed, aimed[2] + maxStepHeight)

directBlocked == getCollisionInfo(collidables, enemyPos, aimed, collisionRadius, NoIgnore).collision

\* the probe below p reports a floor and its top lies above the foot height by
\* more than 0 and at most the step height
floorWithinStep(probe, footY) ==
    /\ probe.collision
    /\ probe.collidable # Null
    /\ normalYAbove07(probe.normal[1])
    /\ topOf(byId(collidables, probe.collidable[1]), enemyPos) - footY > 0
    /\ topOf(byId(collidables, probe.collidable[1]), enemyPos) - footY <= maxStepHeight

climbable ==
    /\ last.grounded
    /\ ~overlaps(raised, collisionRadius, NoIgnore, enemyPos)
    /\ floorWithinStep(checkGroundCollision(collidables, enemyPos, raised, collisionRadius,
                                            maxStepHeight + 100, NoIgnore),
                       last.from[2] - standingHeight)

\* C4: when the player's direct move is blocked, a climb is armed (isClimbing,
\* the position left unchanged) exactly when the player is grounded, the raised
\* position is free and the floor below it is within the step height above
\* the feet
C4_StepUpArmsIffClimbable ==
    (last.actor = "player" /\ last.input # Zero3 /\ last.attempt # "climbing" /\ directBlocked)
        => ((isClimbing /\ playerPos = last.from) <=> climbable)

\* C8: the Enemy's resolution, given the Player's start position, displacement,
\* radius and registry, leaves the position the Player's resolution left
C8_SameCorrectedPosition ==
    (last.actor = "player" /\ last.input # Zero3 /\ last.attempt # "climbing")
        => slideAxisFanResolve(collidables, enemyPos, last.from, last.moveVector, speed,
                               collisionRadius, NoIgnore, ISqrt(lengthSq(last.moveVector)),
                               enemyAngleCount, last.perp).pos = playerPos

\* candidate i of the Player's fan search in the recorded update
playerCandidate(i) == add(last.from, rotatedDir(last.moveVector, speed, playerAngleCount, i))

\* candidate i of the Enemy's fan search in the recorded update
enemyCandidate(i) ==
    add(last.from, rotatedDir(last.moveVector, ISqrt(lengthSq(last.moveVector)),
                              enemyAngleCount, i))

\* the Player's direct move, step-up and slide are all refused
playerFanRuns ==
    /\ directBlocked
    /\ ~tryStepUp(collidables, enemyPos, last.grounded, last.from, aimed).armed
    /\ ~playerSlide(collidables, enemyPos, last.from, last.moveVector,
                    getCollisionInfo(collidables, enemyPos, aimed, collisionRadius, NoIgnore)).ok

\* the slide of the Enemy is refused for the contact c
enemySlideRefused(c, sp) ==
    \/ c.penetration = Null
    \/ c.collidable = Null
    \/ lengthSq(projectOnWall(last.moveVector, c.penetration[1])) = 0
    \/ overlaps(add(last.from, setLength(projectOnWall(last.moveVector, c.penetration[1]), sp)),
                enemyCollisionRadius, NoIgnore, last.from)

\* the Enemy's direct move and slide are refused, whatever the speed was
enemyFanMayRun ==
    /\ getCollisionInfo(collidables, last.from, aimed, enemyCollisionRadius, EnemyId).collision
    /\ \A sp \in EnemySpeeds :
           enemySlideRefused(getCollisionInfo(collidables, last.from, aimed,
                                              enemyCollisionRadius, EnemyId), sp)

playerCandidatesBlocked ==
    \A i \in 0..(playerAngleCount - 1) :
        overlaps(playerCandidate(i), collisionRadius, NoIgnore, enemyPos)

enemyCandidatesBlocked ==
    \A i \in 0..(enemyAngleCount - 1) :
        overlaps(enemyCandidate(i), enemyCollisionRadius, NoIgnore, last.from)

\* C9: if the direct move, the step-up, the slide and every fan candidate are
\* blocked the position is what it was before the resolution; and where the
\* fan search runs, it leaves the position or moves it to a candidate that
\* overlaps nothing and scored more than 0
C9_BlockedStaysFanMovesToScoredFree ==
    /\ (last.actor = "player" /\ last.attempt # "climbing" /\ playerFanRuns)
          => /\ playerCandidatesBlocked => playerPos = last.from
             /\ \/ playerPos = last.from
                \/ \E i \in 0..(playerAngleCount - 1) :
                       /\ playerPos = playerCandidate(i)
                       /\ ~overlaps(playerPos, collisionRadius, NoIgnore, enemyPos)
                       /\ effectiveDistance(last.moveVector, speed, playerAngleCount, i,
                                            last.perp) > 0
    /\ (last.actor = "enemy" /\ enemyFanMayRun /\ enemyCandidatesBlocked)
          => enemyPos = last.from

\* C9 witness: the Player's direct move, step-up, slide and all 16 candidates
\* were blocked
C9_Witness ==
    /\ last.actor = "player"
    /\ last.input # Zero3
    /\ playerFanRuns
    /\ playerCandidatesBlocked
    /\ playerPos = last.from

\* C10: an update with no key down, or a move towards the enemy's own
\* position, leaves x and z as they were when the handler was entered
C10_ZeroDisplacementKeepsXZ ==
    /\ (last.actor = "player" /\ last.input = Zero3)
          => playerPos[1] = last.before[1] /\ playerPos[3] = last.before[3]
    /\ (last.actor = "enemy" /\ last.input = Zero3)
          => enemyPos[1] = last.before[1] /\ enemyPos[3] = last.before[3]

\* C10 witness: no key was down and the player overlapped an obstacle when the
\* update began
C10_Witness ==
    /\ last.actor = "player"
    /\ last.input = Zero3
    /\ overlaps(last.before, collisionRadius, NoIgnore, enemyPos)
    /\ playerPos[1] = last.before[1]
    /\ playerPos[3] = last.before[3]

----------------------------------------------------------------------------
(* Properties of the box-box test and of the agreement of the queries        *)
(* (checked under SpecQuery).                                               *)

\* the box of the test box with the given id
testBox(id) == getOrientedBoundingBox(CHOOSE c \in TestBoxes : c.id = id, enemyPos)

\* on one of the world axes the interval of one box ends where the other's begins
touching(a, b) ==
    \E i \in 1..3 :
        \/ projectOntoAxis(a, computeAxes(0)[i]).max = projectOntoAxis(b, computeAxes(0)[i]).min
        \/ projectOntoAxis(b, computeAxes(0)[i]).max = projectOntoAxis(a, computeAxes(0)[i]).min

\* C11: intersectsOBB gives the same answer with the two boxes exchanged
C11_IntersectsOBBSymmetric ==
    q.op = "intersectsOBB" =>
        q.hit = intersectsOBB(testBox(q.other), testBox(q.box))

\* C11 witness: two different boxes that touch on a face were tested and found
\* to intersect
C11_Witness ==
    /\ q.op = "intersectsOBB"
    /\ q.box # q.other
    /\ touching(testBox(q.box), testBox(q.other))
    /\ q.hit

\* the registered boxes the recorded query does not skip
examined == {k \in 1..Len(collidables) : ~skipped(collidables[k], q.ignore)}

\* the squared distance from the queried position to box k
distanceSqTo(k) ==
    lengthSq(sub(q.position,
                 closestPointToPoint(getOrientedBoundingBox(collidables[k], enemyPos),
                                     q.position)))

\* C12: checkCollision and getCollisionInfo(...).collision agree for the same
\* arguments, and so do intersectsSphere and sphereCollisionInfo on one box;
\* both are false with every box farther than the radius and true with a box
\* at exactly the radius
C12_BooleanAndDetailedAgree ==
    /\ q.op = "checkCollision" =>
          /\ q.hit = getCollisionInfo(collidables, enemyPos, q.position, q.radius,
                                      q.ignore).collision
          /\ (\A k \in examined : distanceSqTo(k) > q.radius * q.radius) => ~q.hit
          /\ (\E k \in examined : distanceSqTo(k) = q.radius * q.radius) => q.hit
    /\ q.op = "getCollisionInfo" =>
          /\ q.info.collision = checkCollision(collidables, enemyPos, q.position, q.radius,
                                               q.ignore)
          /\ (\A k \in examined : distanceSqTo(k) > q.radius * q.radius) => ~q.info.collision
          /\ (\E k \in examined : distanceSqTo(k) = q.radius * q.radius) => q.info.collision
    /\ q.op = "sphereCollisionInfo" =>
          q.info.collision = intersectsSphere(testBox(q.box), q.position, q.radius)

----------------------------------------------------------------------------
\* C13: checkCollision, getCollisionInfo and checkGroundCollision are pure
\* queries: the step that makes one leaves the registry as it was, the box
\* each Wall keeps included, and moves no obstacle.  (The normals stored at
\* registration are read and written by no query; the registry carries none.)
C13_QueriesArePure ==
    [][q'.op \in {"checkCollision", "getCollisionInfo", "checkGroundCollision"}
         => (collidables' = collidables /\ enemyPos' = enemyPos)]_vars

\* C13 witness: a query has run over a full registry that holds a turned
\* Wall, whose box the query refreshed.
C13_Witness ==
    /\ q.op \in {"checkCollision", "getCollisionInfo", "checkGroundCollision"}
    /\ q.ignore = NoIgnore
    /\ Len(collidables) = MaxCollidables
    /\ collidables[1].kind = "wall" /\ collidables[1].rot # 0
    /\ collidables[1] = accessed(collidables[1])

----------------------------------------------------------------------------
(* Properties of Game.update (checked under SpecGame).                      *)

\* an actor has made a collision query in the tick that is running: the
\* player's update has run, and every update that is not a climb probes the
\* ground through the collision system
queriedThisTick == pc = "enemies" /\ last.actor = "player" /\ last.attempt # "climbing"

positionsAfter(direction, spacePressed, deltaTime) ==
    IF isClimbing
    THEN {updateStepClimbing(playerPos, verticalVelocity, climb,
                             now + RDiv(deltaTime, 100)).pos}
    ELSE LET v == updateVerticalMovement(collidables, enemyPos, playerPos, verticalVelocity,
                                         isOnGround, lastJumpTime, spacePressed, deltaTime,
                                         now + RDiv(deltaTime, 100))
             moveVector == moveVectorOf(direction, speed)
         IN {horizontal(direction, v, moveVector, perp).pos :
                 perp \in perpChoices(horizontal(direction, v, moveVector, <<0, 0>>))}

\* C15: the position an update leaves the player at is the one the same
\* update leaves with any other frame time and clock reading: runs that get
\* the same keys from the same state stay together whatever the frame times.
C15_SameOutcomeForAnyFrameTime ==
    [][\A d \in KeyDirections, sp \in BOOLEAN, dt \in DeltaTimes :
           UpdatePlayer(d, sp, dt) => \A dt2 \in DeltaTimes : playerPos' \in positionsAfter(d, sp, dt2)]_vars

----------------------------------------------------------------------------
\* the move along horizontal axis a alone (1 for X, 3 for Z) of the latest
\* update is a move, and collides with nothing
axisMoveFree(a) ==
    /\ last.moveVector[a] # 0
    /\ ~checkCollision(collidables, enemyPos,
                       add(last.from, [k \in 1..3 |-> IF k = a THEN last.moveVector[a] ELSE 0]),
                       collisionRadius, NoIgnore)

\* C16: the player's attempts run in the order direct, step-up, slide,
\* axis-separated moves, fan search: the fan search decides an update (moved
\* or blocked) only when neither the X-only nor the Z-only move was free.
C16_AxisMovesBeforeFan ==
    (last.actor = "player" /\ last.attempt \in {"fan", "blocked"})
        => ~(axisMoveFree(1) \/ axisMoveFree(3))

----------------------------------------------------------------------------
(* Properties of a climb (checked under SpecClimb).                         *)

\* v lies between a and b
between(v, a, b) == (a <= v /\ v <= b) \/ (b <= v /\ v <= a)

\* C17: the first update made climbDuration or more after a climb was armed
\* puts the player on the climb target, zeroes the vertical velocity, clears
\* the climb flag and leaves the player grounded; an update made earlier
\* moves the player between start and target and changes neither the
\* vertical velocity nor the grounded flag, whatever the keys.
C17_ClimbCompletesOnTarget ==
    [][isClimbing =>
          IF now' - climb.startTime >= climbDuration
          THEN /\ playerPos' = climb.targetPosition
               /\ verticalVelocity' = 0
               /\ ~isClimbing'
               /\ isOnGround'
          ELSE /\ \A k \in 1..3 : between(playerPos'[k], climb.startPosition[k],
                                           climb.targetPosition[k])
               /\ verticalVelocity' = verticalVelocity
               /\ isOnGround' = isOnGround
               /\ isClimbing']_vars

\* C17 witness: a climb armed with a falling velocity has completed: the
\* player is on the target with no vertical velocity, after updates that
\* moved it between start and target.
C17_Witness ==
    /\ ~isClimbing
    /\ last.attempt = "climbing"
    /\ playerPos = climb.targetPosition
    /\ last.before # climb.startPosition
    /\ last.before # climb.targetPosition
    /\ verticalVelocity = 0
    /\ now - climb.startTime >= climbDuration
    /\ ticks > 6

----------------------------------------------------------------------------
(* Properties of the vertical part (checked under SpecVertical).            *)

\* the step starts a jump: lastJumpTime takes the clock reading of the step
jumpStarts == lastJumpTime' # lastJumpTime /\ lastJumpTime' = now'

\* C18: an update starts a jump exactly when the jump key is down, the
\* player is grounded and more than jumpCooldown has passed since the last
\* jump started.
C18_JumpIffGroundedAndCooledDown ==
    [][\A sp \in BOOLEAN, dt \in DeltaTimes :
           VerticalUpdate(sp, dt) =>
               (jumpStarts <=> (sp /\ isOnGround /\ now' - lastJumpTime > jumpCooldown))]_vars

\* C18 witness: a jump has started and the player is grounded again before
\* jumpCooldown has passed: a jump asked for now is refused for the cooldown
\* alone.
C18_Witness ==
    /\ lastJumpTime > 1000
    /\ isOnGround
    /\ now - lastJumpTime <= jumpCooldown
    /\ now - lastJumpTime > 0

\* the answer of the ground probe of updateVerticalMovement from the current
\* position: groundCheck.collision && groundCheck.groundY !== null
floorReported ==
    LET groundCheck == checkGroundCollision(collidables, enemyPos, playerPos, collisionRadius,
                                            playerHeight, NoIgnore)
    IN groundCheck.collision /\ groundCheck.groundY # Null

\* C19: an update marks the player grounded (a player that was not, or one
\* whose jump starts in the same update) only if the ground probe reports a
\* floor and the vertical velocity of the update, after gravity and the
\* jump, is not upward.
C19_GroundedOnlyOnFloorWhileNotRising ==
    [][\A sp \in BOOLEAN, dt \in DeltaTimes :
           (VerticalUpdate(sp, dt) /\ isOnGround' /\ (~isOnGround \/ jumpStarts)) =>
               /\ floorReported
               /\ ~jumpStarts
               /\ verticalVelocity - RDiv(gravity * normalizedDt(dt), 1000) <= 0]_vars

\* C20: the fall speed is clamped to the terminal velocity: no update moves
\* the player down by more than the terminal velocity allows for its frame
\* time, and none leaves a vertical velocity below the terminal velocity.
C20_FallSpeedClamped ==
    [][\A sp \in BOOLEAN, dt \in DeltaTimes :
           VerticalUpdate(sp, dt) =>
               /\ verticalVelocity' >= terminalVelocity
               /\ playerPos'[2] - playerPos[2] >= RDiv(terminalVelocity * normalizedDt(dt), 1000)]_vars


\* the vertical velocity of an update after gravity and the jump, with frame
\* time deltaTime
risingWith(deltaTime) ==
    IF jumpStarts THEN jumpForce
    ELSE verticalVelocity - RDiv(gravity * normalizedDt(deltaTime), 1000)

C22_NoContactNotGrounded ==
    [][\A sp \in BOOLEAN, dt \in DeltaTimes :
           (VerticalUpdate(sp, dt) /\ ~isClimbing /\ ~floorReported) => ~isOnGround']_vars

\* sample i of the ground probe of the last query touches collidable c with a
\* normal that points mostly upward
floorContactAt(c, i) ==
    LET collisionInfo == sphereCollisionInfo(getOrientedBoundingBox(c, enemyPos),
                                             testSphereCenter(q.position, q.height, i), q.radius)
    IN /\ collisionInfo.collision
       /\ collisionInfo.penetration # Null
       /\ normalYAbove07(collisionInfo.penetration[1])

\* C23: the floor checkGroundCollision returns is the one contacted at the
\* shallowest sample depth, whatever the registration order: no sample above
\* the returned one has a floor contact with any registered obstacle that
\* is not ignored.
C23_ShallowestFloorReturned ==
    (/\ q.op = "checkGroundCollision"
     /\ q.ground.collision
     /\ normalYAbove07(q.ground.normal[1]))
    => \A k \in 1..Len(collidables), i \in 0..probeSteps :
           (/\ ~skipped(collidables[k], q.ignore)
            /\ floorContactAt(collidables[k], i))
           => q.ground.groundY[1] >= testSphereCenter(q.position, q.height, i)[2] + q.radius

\* the registry with the enemy's own box taken out
withoutSelf(cs) == SelectSeq(cs, LAMBDA c : c.id # EnemyId)

\* C24: the enemy never collides with itself during its own resolution: each
\* Enemy.moveTowardsWithCollision ends where it ends when its own box is left
\* out of every collision test (the direct move, the slide, the X-only and
\* Z-only moves and each candidate of the fan).
C24_EnemyIgnoresOwnBox ==
    [][\A t \in {playerPos, PatrolPoint, enemyPos}, sp \in EnemySpeeds :
           MoveTowardsWithCollision(t, sp) =>
               \E perp \in PerpScores :
                   enemyPos' = enemyResolve(withoutSelf(collidables), enemyPos,
                                            enemyMoveVector(enemyPos, t, sp), sp, perp).pos]_vars

\* C25: at the end of every update of a player that is not climbing, a
\* grounded player has no vertical velocity.
C25_GroundedHasNoVerticalVelocity ==
    (~isClimbing /\ isOnGround) => verticalVelocity = 0

\* C25 witness: the player has jumped and is grounded again, above the
\* height of the failsafe: the ground snap ended the jump.
C25_Witness ==
    /\ isOnGround
    /\ lastJumpTime > 1000
    /\ playerPos[2] > absoluteMinY + standingHeight

\* the update with jump key state spacePressed and frame time deltaTime snaps
\* the player onto the flat top of an obstacle: the ground probe returns a
\* contact whose normal points straight up and the snap branch is taken
snapsOntoFlatFloor(spacePressed, deltaTime) ==
    LET groundCheck == checkGroundCollision(collidables, enemyPos, playerPos, collisionRadius,
                                            playerHeight, NoIgnore)
    IN /\ updateVerticalMovement(collidables, enemyPos, playerPos, verticalVelocity,
                                 isOnGround, lastJumpTime, spacePressed, deltaTime,
                                 now + RDiv(deltaTime, 100)).snapped
       /\ groundCheck.normal # Null
       /\ groundCheck.normal[1].dir[1] = 0
       /\ groundCheck.normal[1].dir[3] = 0
       /\ groundCheck.normal[1].dir[2] > 0

\* C26: the ground snap is idempotent: after an update that snaps the player
\* onto a flat floor obstacle, a further update with no jump request and the
\* same registry leaves the height, the vertical velocity (0) and the
\* grounded flag (true) as they are.
C26_GroundSnapIdempotent ==
    [][\A sp \in BOOLEAN, dt \in DeltaTimes :
           (LandingUpdate(sp, dt) /\ snapsOntoFlatFloor(sp, dt)) =>
               \A further \in DeltaTimes :
                   LET r == updateVerticalMovement(collidables', enemyPos', playerPos',
                                                   verticalVelocity', isOnGround',
                                                   lastJumpTime', FALSE, further,
                                                   now' + RDiv(further, 100))
                   IN /\ r.pos[2] = playerPos'[2]
                      /\ r.vv = 0 /\ verticalVelocity' = 0
                      /\ r.onGround /\ isOnGround']_vars

\* C27: every enemy in the collision registry is on the EnemyManager's list:
\* the registry holds no box of an enemy that was taken off the list, and the
\* box of the current enemy only while the list holds it.
C27_RegisteredEnemiesAreListed ==
    \A k \in 1..Len(collidables) :
        /\ collidables[k].id # "left"
        /\ collidables[k].id = EnemyId => enemies = <<EnemyId>>

\* the gameLoop callback chains alive: the frame requests not yet served and
\* the frame that is running
chains == pending + (IF pc \in {"start", "enemies"} THEN 1 ELSE 0)

\* C28: at most one gameLoop callback chain is alive at any time, and while
\* gameOver stays set no frame is requested.
C28_OneCallbackChain ==
    [][/\ chains' <= 1
       /\ (gameOver /\ gameOver') => pending' <= pending]_vars

\* C29: health and armor stay within their ranges, a dead Player has health
\* 0, and a dead Player stays dead.
C29_DeathIsPermanent ==
    [][/\ player'.health \in 0..maxHealth
       /\ player'.armor \in 0..maxArmor
       /\ player'.isDead => player'.health = 0
       /\ player.isDead => player'.isDead]_vars

\* C30: a takeDamage that brings the enemy's health to 0 or below leaves it
\* DYING; a DYING enemy stays DYING under update and takeDamage, and its
\* update neither moves it nor attacks the player.
C30_DyingIsAbsorbing ==
    [][/\ \A elapsed \in Elapsed :
              Shoot(elapsed) =>
                  /\ (enemy' # enemy /\ enemy'.health <= 0) => enemy'.state = "DYING"
                  /\ enemy.state = "DYING" => (enemy'.state = "DYING" /\ enemyPos' = enemyPos)
       /\ \A patrols \in BOOLEAN :
              (UpdateEnemyManager(patrols) /\ enemy.state = "DYING") =>
                  /\ enemy' = enemy
                  /\ enemyPos' = enemyPos
                  /\ player' = player]_vars

\* C30 witness: the enemy was hit again after the shot that killed it, then
\* updated by a frame, which took it off the list: it is DYING still.
C30_Witness ==
    /\ enemy.state = "DYING"
    /\ enemy.health < impHealth - 3 * weaponDamage
    /\ enemies = <<>>
    /\ pc = "idle"

====
